---- MODULE Spec2Model ----
(***************************************************************************)
(* Verification model of indexless-query-benchmarks:                       *)
(*   - the engine runner adapters (src/src/runners.ts),                    *)
(*   - the statistics / formatting helpers (src/src/utils.ts),             *)
(*   - the benchmark CLI with report generation (src/src/benchmark.ts,     *)
(*     the --report variant, lines 142-397).                               *)
(* Three specifications share the variables:                               *)
(*   Spec         one run of the benchmark CLI,                            *)
(*   SpecAdapter  arbitrary call sequences on the three adapters,          *)
(*   SpecReport   generateMarkdown applied to arbitrary reports.           *)
(***************************************************************************)
EXTENDS Integers, Sequences, FiniteSets, TLC

VARIABLES
  argv,           \* engine flags as typed on the command line (a sequence)
  values,         \* parseArgs result
  QUERIES,        \* the query catalog
  pc,             \* control point of the CLI
  exitCode,       \* process exit code (0 until process.exit(1))
  ei,             \* position in main's postgres/clickhouse/trino sequence
  qi,             \* index of queryDef in queriesToRun
  phase,          \* which runBenchmark call is active: "warmup" | "measure"
  i,              \* loop counter of runBenchmark
  results,        \* results array of the active runBenchmark call
  inFlight,       \* number of runQuery promises currently awaited
  dbResult,       \* DatabaseResult under construction
  report,         \* BenchmarkReport
  stderr,         \* console.error lines
  lastOutcome,    \* what benchmarkDatabase printed for the last evaluated query
  visited,        \* engines whose "=== NAME ===" banner was printed
  queriesVisited, \* queries whose "[name]" banner was printed in this pass
  warmupDone,     \* runQuery calls completed by the warmup runBenchmark call
  measuredDone,   \* runQuery calls completed by the measured runBenchmark call
  connectCalls,   \* connect() calls made so far
  issued,         \* runQuery calls issued for the current query
  measuredOk,     \* durations of the measured executions that returned normally
  passRaised,     \* <<engine, call>>: the client library failed in that call
  client,         \* per adapter: the private client field (Null or a client id)
  nextClient,     \* number of client objects created so far
  ended,          \* client ids on which end()/close() was called, in call order
  sent,           \* per adapter: queries handed to the engine client
  live,           \* per adapter: connected according to the call history
  last,           \* the last adapter call made by the harness and its result
  ncalls,         \* number of harness calls made
  md,             \* output of generateMarkdown
  now,            \* the clock reading of new Date() (UTC fields), or NoDate
  files,          \* files written under reports/, in write order
  array,          \* the caller's array handed to calculateStats
  passed,         \* the contents of that array when the call was made
  returned,       \* what calculateStats returned
  msArg,          \* the argument of a formatDuration call
  formatted,      \* what formatDuration returned
  variant,        \* which revision of the data-generation CLI runs
  genValues,      \* parseArgs result of the data-generation CLI
  di,             \* position in dbsToRun
  si,             \* position in the steps of the current engine
  generator,      \* per engine: "none" | "created" | "connected" | "closed"
  tables,         \* per engine and table: rows inserted and batches used
  loadOrder,      \* per engine: the tables whose load has started, in order
  thrown,         \* an exception is propagating out of generateForDatabase
  attempted,      \* engines whose "=== NAME ===" banner was printed
  cacheFile,      \* the records of the optimizer's results_<cloud>.json
  trialNumber,    \* trial.number of the current objective call
  sampled,        \* the infra and config dicts of the current trial
  cached,         \* what find_cached_result returned (<<>> for None)
  benchResult,    \* the BenchmarkResult of the current trial
  ran,            \* stages the current trial has executed
  trialOutcome,   \* how the last finished objective call ended
  savedKeys,      \* keys whose trial of this run succeeded and was saved
  cacheAtStart,   \* the records of the cache when the current trial began
  keyArgs,        \* two (infra, config) pairs given to config_to_key
  keys,           \* the keys config_to_key returned for them
  optArgs,        \* the parsed command line of the optimizer's main
  direction,      \* the direction of the Optuna study ("none" before it exists)
  destroyCalls,   \* calls of destroy_all made by main
  escaped,        \* an exception has left study.optimize
  exits,          \* all-checks.sh: what each external command will exit with
  stdout,         \* all-checks.sh: the lines echoed so far
  cmds,           \* all-checks.sh: the external commands run so far
  shExit,         \* all-checks.sh: the exit status (-1 while running)
  tfInput,        \* minio.tf: the values of the input variables
  tfState,        \* minio.tf: the resources and outputs after apply
  nodes           \* minio.tf: per node, what the bootstrap script has done

cliVars == <<argv, values, QUERIES, pc, exitCode, ei, qi, phase, i, results,
             inFlight, dbResult, report, stderr, lastOutcome, visited,
             queriesVisited, warmupDone, measuredDone, connectCalls, issued,
             measuredOk, passRaised>>
adapterVars == <<client, nextClient, ended, sent>>
harnessVars == <<live, last, ncalls>>
fileVars == <<now, files>>
statsVars == <<array, passed, returned>>
formatVars == <<msArg, formatted>>
genVars == <<variant, genValues, di, si, generator, tables, loadOrder, thrown,
            attempted>>
optVars == <<cacheFile, trialNumber, sampled, cached, benchResult, ran,
            trialOutcome, savedKeys, cacheAtStart>>
keyVars == <<keyArgs, keys>>
mainVars == <<optArgs, direction, destroyCalls, escaped>>
shVars == <<exits, stdout, cmds, shExit>>
tfVars == <<tfInput, tfState, nodes>>
opsVars == <<shVars, tfVars>>
laterVars == <<genVars, optVars, keyVars, mainVars, opsVars>>
extVars == <<fileVars, statsVars, formatVars, laterVars>>
vars == <<cliVars, adapterVars, harnessVars, md, extVars>>

----------------------------------------------------------------------------
(* Bounds *)

MaxFlags == 2       \* engine flags on one command line
MaxWarmup == 1      \* largest --warmup value
MaxRuns == 2        \* largest --runs value
MaxDuration == 1    \* largest measured durationMs of one execution
MaxNoSql == 1       \* catalog entries (query, engine) without SQL text
MaxCalls == 4       \* adapter calls made by the harness
MaxDbs == 2         \* engines in an arbitrary report
MaxRows == 2        \* result rows per engine in an arbitrary report
MaxLen == 4         \* length of an arbitrary array given to calculateStats
MaxValue == 2       \* largest value in such an array
MaxHours == 1       \* whole hours in an arbitrary formatDuration argument
MaxBatches == 10    \* batches of one table load
MaxCache == 2       \* records of an arbitrary result cache
MaxPreloaded == 1   \* records in the cache when an optimizer run starts
MaxTrials == 2      \* trials of one optimizer run
MaxParam == 2       \* largest parameter value given to config_to_key
MaxNodes == 3       \* largest minio_node_count
MaxDrives == 10     \* largest minio_drives_per_node

----------------------------------------------------------------------------
(* Generic helpers *)

Null == 0

Range(s) == {s[k] : k \in 1..Len(s)}

SeqsUpTo(S, n) == UNION {[1..k -> S] : k \in 0..n}

RECURSIVE SumSeq(_)
SumSeq(s) == IF s = <<>> THEN 0 ELSE Head(s) + SumSeq(Tail(s))

RECURSIVE Insert(_, _)
Insert(x, s) ==
  IF s = <<>> THEN <<x>>
  ELSE IF x < Head(s) THEN <<x>> \o s
  ELSE <<Head(s)>> \o Insert(x, Tail(s))

RECURSIVE SortAsc(_)
\* [...values].sort((a, b) => a - b)
SortAsc(s) == IF s = <<>> THEN <<>> ELSE Insert(Head(s), SortAsc(Tail(s)))

RECURSIVE Join(_, _)
\* Array.prototype.join
Join(s, sep) ==
  IF s = <<>> THEN ""
  ELSE IF Len(s) = 1 THEN Head(s)
  ELSE Head(s) \o sep \o Join(Tail(s), sep)

RECURSIVE GCD(_, _)
GCD(a, b) == IF b = 0 THEN a ELSE GCD(b, a % b)

\* A JavaScript number that is an integer or a quotient of two integers.
Num(n) == [num |-> n, den |-> 1]
Quot(a, b) == LET g == GCD(a, b) IN
              IF g = 0 THEN [num |-> 0, den |-> 1]
              ELSE [num |-> a \div g, den |-> b \div g]
NumLt(x, k) == x.num < k * x.den
\* Math.floor(x / k)
FloorDiv(x, k) == x.num \div (k * x.den)
\* x % k
ModNum(x, k) == [num |-> x.num - k * x.den * FloorDiv(x, k), den |-> x.den]

Digit2(n) == IF n < 10 THEN "0" \o ToString(n) ELSE ToString(n)

----------------------------------------------------------------------------
(* src/src/utils.ts *)

\* Math.round(x): the nearest integer, halves rounded up.
MathRound(x) == (2 * x.num + x.den) \div (2 * x.den)

RECURSIVE Pow2Mod1000(_)
Pow2Mod1000(k) == IF k = 0 THEN 1 ELSE (2 * Pow2Mod1000(k - 1)) % 1000

\* The binary exponent of ms / 1000 for 1000 <= ms < 64000.
BinaryExponent(ms) == CHOOSE e \in 0..5 : 1000 * 2^e <= ms /\ ms < 2000 * 2^e

\* ms / 1000 is the double nearest to the quotient (53-bit significand).  TRUE
\* when that double is not below the exact quotient: the remainder of
\* ms * 2^(52 - e) by 1000 is 0 (exact) or more than 500 (rounded up).
DoubleNotBelow(ms) ==
  LET r == ((ms % 1000) * Pow2Mod1000(52 - BinaryExponent(ms))) % 1000
  IN r = 0 \/ r > 500

\* (x / 1000).toFixed(2): the multiple of 0.01 nearest to the double x / 1000,
\* the larger one when the double lies exactly between two; as "<int>.<dd>".
ToFixed2Seconds(x) ==
  LET down == x.num \div (10 * x.den)
      twice == 2 * x.num - 20 * x.den * down
      n == IF twice > 10 * x.den THEN down + 1
           ELSE IF twice < 10 * x.den THEN down
           ELSE IF DoubleNotBelow(x.num) THEN down + 1 ELSE down
  IN ToString(n \div 100) \o "." \o Digit2(n % 100)

\* Mutant: the seconds of the minute and hour forms are rounded, not floored.
formatDuration_RoundSeconds(ms) ==
  IF NumLt(ms, 1000) THEN ToString(MathRound(ms)) \o "ms"
  ELSE IF NumLt(ms, 60000) THEN ToFixed2Seconds(ms) \o "s"
  ELSE IF NumLt(ms, 3600000) THEN
    LET minutes == FloorDiv(ms, 60000)
        seconds == MathRound(Quot(ModNum(ms, 60000).num, 1000 * ms.den))
    IN ToString(minutes) \o "m " \o ToString(seconds) \o "s"
  ELSE
    LET hours == FloorDiv(ms, 3600000)
        minutes == FloorDiv(ModNum(ms, 3600000), 60000)
        seconds == MathRound(Quot(ModNum(ms, 60000).num, 1000 * ms.den))
    IN ToString(hours) \o "h " \o ToString(minutes) \o "m "
         \o ToString(seconds) \o "s"

formatDuration(ms) ==
  IF NumLt(ms, 1000) THEN ToString(MathRound(ms)) \o "ms"
  ELSE IF NumLt(ms, 60000) THEN ToFixed2Seconds(ms) \o "s"
  ELSE IF NumLt(ms, 3600000) THEN
    LET minutes == FloorDiv(ms, 60000)
        seconds == FloorDiv(ModNum(ms, 60000), 1000)
    IN ToString(minutes) \o "m " \o ToString(seconds) \o "s"
  ELSE
    LET hours == FloorDiv(ms, 3600000)
        minutes == FloorDiv(ModNum(ms, 3600000), 60000)
        seconds == FloorDiv(ModNum(ms, 60000), 1000)
    IN ToString(hours) \o "h " \o ToString(minutes) \o "m "
         \o ToString(seconds) \o "s"

IdleFormat == msArg = 0 /\ formatted = ""

\* Mutant: the sum is not divided by the count.
calculateStats_SumAsAvg(vals) ==
  IF Len(vals) = 0
  THEN [min |-> 0, max |-> 0, avg |-> Num(0), median |-> 0, p95 |-> 0]
  ELSE LET sorted == SortAsc(vals)
           sum == SumSeq(sorted)
       IN [min |-> sorted[1],
           max |-> sorted[Len(sorted)],
           avg |-> Num(sum),
           median |-> sorted[(Len(sorted) \div 2) + 1],
           p95 |-> sorted[((Len(sorted) * 95) \div 100) + 1]]

\* Mutant: no early return for an empty array; 0 / 0 is NaN.
calculateStats_NoEmptyCheck(vals) ==
  LET sorted == SortAsc(vals)
      sum == SumSeq(sorted)
      at(k) == IF k \in 1..Len(sorted) THEN sorted[k] ELSE 0
  IN [min |-> at(1),
      max |-> at(Len(sorted)),
      avg |-> IF Len(sorted) = 0 THEN [num |-> 0, den |-> 0]
              ELSE Quot(sum, Len(sorted)),
      median |-> at((Len(sorted) \div 2) + 1),
      p95 |-> at(((Len(sorted) * 95) \div 100) + 1)]

\* Mutant: the 95th percentile is taken at the last index.
calculateStats_P95Last(vals) ==
  IF Len(vals) = 0
  THEN [min |-> 0, max |-> 0, avg |-> Num(0), median |-> 0, p95 |-> 0]
  ELSE LET sorted == SortAsc(vals)
           sum == SumSeq(sorted)
       IN [min |-> sorted[1],
           max |-> sorted[Len(sorted)],
           avg |-> Quot(sum, Len(sorted)),
           median |-> sorted[(Len(sorted) \div 2) + 1],
           p95 |-> sorted[Len(sorted)]]

calculateStats(vals) ==
  IF Len(vals) = 0
  THEN [min |-> 0, max |-> 0, avg |-> Num(0), median |-> 0, p95 |-> 0]
  ELSE LET sorted == SortAsc(vals)
           sum == SumSeq(sorted)
       IN [min |-> sorted[1],
           max |-> sorted[Len(sorted)],
           avg |-> Quot(sum, Len(sorted)),
           median |-> sorted[(Len(sorted) \div 2) + 1],
           p95 |-> sorted[((Len(sorted) * 95) \div 100) + 1]]

\* The caller's array after calculateStats: 32 sorts a copy ([...values]).
calculateStats_values(vals) == vals

NoStats == [min |-> 0, max |-> 0, avg |-> Num(0), median |-> 0, p95 |-> 0]

IdleStats == array = <<>> /\ passed = <<>> /\ returned = NoStats

----------------------------------------------------------------------------
(* src/src/runners.ts: the adapters.  Each operator takes the adapter's     *)
(* private client field and what the engine's client library does, and     *)
(* returns the new field with the call's result.                           *)

NotConnected == "Not connected"

\* What the engine does with one query: a duration and a row count, or an error.
Durations == 1..MaxDuration
EngineOutcomes ==
  {[ok |-> TRUE, durationMs |-> d, rowCount |-> 1, message |-> ""] : d \in Durations}
  \cup {[ok |-> FALSE, durationMs |-> 0, rowCount |-> 0, message |-> "query failed"]}

ConnectResult(field, raised) == [field |-> field, raised |-> raised]
DisconnectResult(field, raised, closed) ==
  [field |-> field, raised |-> raised, closed |-> closed]
QueryReturn(raised, sentToEngine, durationMs, rowCount) ==
  [raised |-> raised, sent |-> sentToEngine, durationMs |-> durationMs,
   rowCount |-> rowCount]

PostgresRunner_connect(sql, libThrows, newClient) ==
  IF libThrows THEN ConnectResult(sql, "client error")
  ELSE ConnectResult(newClient, "")

\* Mutant: end() is called whether or not there is a client.
PostgresRunner_disconnect_NoGuard(sql, endRejects) ==
  IF sql = Null THEN DisconnectResult(Null, "TypeError", <<sql>>)
  ELSE IF endRejects THEN DisconnectResult(sql, "close failed", <<sql>>)
  ELSE DisconnectResult(Null, "", <<sql>>)

PostgresRunner_disconnect(sql, endRejects) ==
  IF sql # Null
  THEN IF endRejects THEN DisconnectResult(sql, "close failed", <<sql>>)
       ELSE DisconnectResult(Null, "", <<sql>>)
  ELSE DisconnectResult(sql, "", <<>>)

\* Mutant: the query goes to the client without the connection test.
PostgresRunner_runQuery_NoGuard(sql, outcome) ==
  IF outcome.ok THEN QueryReturn("", TRUE, outcome.durationMs, outcome.rowCount)
  ELSE QueryReturn(outcome.message, TRUE, 0, 0)

PostgresRunner_runQuery(sql, outcome) ==
  IF sql = Null THEN QueryReturn(NotConnected, FALSE, 0, 0)
  ELSE IF outcome.ok THEN QueryReturn("", TRUE, outcome.durationMs, outcome.rowCount)
  ELSE QueryReturn(outcome.message, TRUE, 0, 0)

ClickHouseRunner_connect(cl, libThrows, newClient) ==
  IF libThrows THEN ConnectResult(cl, "client error")
  ELSE ConnectResult(newClient, "")

ClickHouseRunner_disconnect(cl, closeRejects) ==
  IF cl # Null
  THEN IF closeRejects THEN DisconnectResult(cl, "close failed", <<cl>>)
       ELSE DisconnectResult(Null, "", <<cl>>)
  ELSE DisconnectResult(cl, "", <<>>)

ClickHouseRunner_runQuery(cl, outcome) ==
  IF cl = Null THEN QueryReturn(NotConnected, FALSE, 0, 0)
  ELSE IF outcome.ok THEN QueryReturn("", TRUE, outcome.durationMs, outcome.rowCount)
  ELSE QueryReturn(outcome.message, TRUE, 0, 0)

TrinoRunner_connect(trino, libThrows, newClient) ==
  IF libThrows THEN ConnectResult(trino, "client error")
  ELSE ConnectResult(newClient, "")

\* No client call is made: the field is dropped.
TrinoRunner_disconnect(trino, closeRejects) == DisconnectResult(Null, "", <<>>)

TrinoRunner_runQuery(trino, outcome) ==
  IF trino = Null THEN QueryReturn(NotConnected, FALSE, 0, 0)
  ELSE IF outcome.ok THEN QueryReturn("", TRUE, outcome.durationMs, outcome.rowCount)
  ELSE QueryReturn("Trino query failed: " \o outcome.message, TRUE, 0, 0)

\* DatabaseRunner: dispatch on the adapter's name.
connect(name, field, libThrows, newClient) ==
  CASE name = "postgres" -> PostgresRunner_connect(field, libThrows, newClient)
    [] name = "clickhouse" -> ClickHouseRunner_connect(field, libThrows, newClient)
    [] name = "trino" -> TrinoRunner_connect(field, libThrows, newClient)

disconnect(name, field, closeRejects) ==
  CASE name = "postgres" -> PostgresRunner_disconnect(field, closeRejects)
    [] name = "clickhouse" -> ClickHouseRunner_disconnect(field, closeRejects)
    [] name = "trino" -> TrinoRunner_disconnect(field, closeRejects)

runQuery(name, field, outcome) ==
  CASE name = "postgres" -> PostgresRunner_runQuery(field, outcome)
    [] name = "clickhouse" -> ClickHouseRunner_runQuery(field, outcome)
    [] name = "trino" -> TrinoRunner_runQuery(field, outcome)

----------------------------------------------------------------------------
(* src/src/queries.ts and the command line *)

\* Mutant: main calls clickhouse before postgres.
MainOrder_Swapped == <<"clickhouse", "postgres", "trino">>

MainOrder == <<"postgres", "clickhouse", "trino">>
EngineSet == Range(MainOrder)

\* The first catalog names; an entry may lack the SQL text of an engine.
CatalogNames == <<"full-count", "filter-by-status">>

NoSqlChoices ==
  {S \in SUBSET (Range(CatalogNames) \X EngineSet) : Cardinality(S) <= MaxNoSql}

Catalog(noSql) ==
  [k \in 1..Len(CatalogNames) |->
     [name |-> CatalogNames[k],
      sql |-> [e \in EngineSet |-> <<CatalogNames[k], e>> \notin noSql]]]

\* values.query: absent, or the text given after -q (possibly empty).
QueryArgs ==
  {[given |-> FALSE, name |-> ""]}
  \cup {[given |-> TRUE, name |-> n] :
          n \in Range(CatalogNames) \cup {"", "nonexistent-name"}}

\* values.report is read once, at the end of main: GenerateReport and Done
\* draw it there.
parseArgs(flags, warmup, runs, query) ==
  [postgres |-> "postgres" \in Range(flags),
   clickhouse |-> "clickhouse" \in Range(flags),
   trino |-> "trino" \in Range(flags),
   warmup |-> warmup, runs |-> runs, query |-> query]

WARMUP_RUNS == values.warmup
BENCHMARK_RUNS == values.runs

noDbSelected == ~values.postgres /\ ~values.clickhouse /\ ~values.trino
runPostgres == values.postgres \/ noDbSelected
runClickHouse == values.clickhouse \/ noDbSelected
runTrino == values.trino \/ noDbSelected

\* The condition guarding each benchmarkDatabase call of main, in call order.
runFlag(k) == CASE k = 1 -> runPostgres [] k = 2 -> runClickHouse [] k = 3 -> runTrino

\* A string is truthy unless it is absent or empty.
queryFilter == values.query
Truthy(q) == q.given /\ q.name # ""

queriesToRun ==
  IF Truthy(queryFilter)
  THEN SelectSeq(QUERIES, LAMBDA q : q.name = queryFilter.name)
  ELSE QUERIES

----------------------------------------------------------------------------
(* src/src/benchmark.ts: report generation *)

Placeholder == "-"

FindResult(rows, query) ==
  LET hits == {k \in 1..Len(rows) : rows[k].query = query}
  IN IF hits = {} THEN <<>>
     ELSE <<rows[CHOOSE k \in hits : \A j \in hits : k <= j]>>

\* Mutant: a missing result is dereferenced instead of replaced by "-".
generateMarkdown_NoPlaceholder(rep) ==
  LET queries == IF Len(rep.databases) >= 1
                 THEN [k \in 1..Len(rep.databases[1].results) |->
                         rep.databases[1].results[k].query]
                 ELSE <<>>
      dbNames == [d \in 1..Len(rep.databases) |-> rep.databases[d].database]
      missing(query) ==
        \E d \in 1..Len(rep.databases) :
          FindResult(rep.databases[d].results, query) = <<>>
      cellsOf(query) ==
        [d \in 1..Len(rep.databases) |->
           LET result == FindResult(rep.databases[d].results, query)
           IN IF result # <<>> THEN formatDuration(result[1].avgMs)
              ELSE "undefined"]
      rows == [k \in 1..Len(queries) |->
                 [query |-> queries[k], cells |-> cellsOf(queries[k])]]
  IN [failed |-> \E k \in 1..Len(queries) : missing(queries[k]),
      header |-> dbNames,
      rows |-> rows,
      lines |-> <<>>]

generateMarkdown(rep) ==
  LET queries == IF Len(rep.databases) >= 1
                 THEN [k \in 1..Len(rep.databases[1].results) |->
                         rep.databases[1].results[k].query]
                 ELSE <<>>
      dbNames == [d \in 1..Len(rep.databases) |-> rep.databases[d].database]
      cellsOf(query) ==
        [d \in 1..Len(rep.databases) |->
           LET result == FindResult(rep.databases[d].results, query)
           IN IF result # <<>> THEN formatDuration(result[1].avgMs)
              ELSE Placeholder]
      rows == [k \in 1..Len(queries) |->
                 [query |-> queries[k], cells |-> cellsOf(queries[k])]]
  IN [failed |-> FALSE,
      header |-> dbNames,
      rows |-> rows,
      lines |-> <<"| Query | " \o Join(dbNames, " | ") \o " |">>
                \o [k \in 1..Len(rows) |->
                      "| " \o rows[k].query \o " | "
                        \o Join(rows[k].cells, " | ") \o " |"]]

NoMarkdown == [failed |-> FALSE, header |-> <<>>, rows |-> <<>>, lines |-> <<>>]

\* A string as the sequence of its characters.
DigitsOf(n, width) == [k \in 1..width |-> ToString((n \div 10^(width - k)) % 10)]

\* Date.prototype.toISOString for a year of four digits:
\* YYYY-MM-DDTHH:mm:ss.sssZ
toISOString(d) ==
  DigitsOf(d.year, 4) \o <<"-">> \o DigitsOf(d.month, 2) \o <<"-">>
    \o DigitsOf(d.day, 2) \o <<"T">> \o DigitsOf(d.hours, 2) \o <<":">>
    \o DigitsOf(d.minutes, 2) \o <<":">> \o DigitsOf(d.seconds, 2) \o <<".">>
    \o DigitsOf(d.ms, 3) \o <<"Z">>

\* String.prototype.replace(/[:.]/g, "-")
ReplaceColonDot(str) ==
  [k \in 1..Len(str) |-> IF str[k] \in {":", "."} THEN "-" ELSE str[k]]

\* String.prototype.slice(0, end)
Slice0(str, end) == SubSeq(str, 1, IF end < Len(str) THEN end ELSE Len(str))

\* Mutant: the token is not truncated.
timestampToken_NoSlice(ts) == ReplaceColonDot(ts)

\* generateReport 331
timestampToken(ts) == Slice0(ReplaceColonDot(ts), 19)

\* join(reportsDir, `benchmark-${timestamp}.<ext>`)
ReportPath(timestamp, ext) ==
  <<"reports", "/", "benchmark-">> \o timestamp \o <<".", ext>>

File(path, data) == [path |-> path, data |-> data]

\* The steps of generateReport that touch the file system.
IoSteps == <<"mkdir", "json", "md">>

\* generateReport 327-343; failsAt is the step whose call throws, or "none".
\* Returns the files written and whether the function returned.
generateReport(rep, failsAt) ==
  LET timestamp == timestampToken(rep.timestamp)
      jsonFile == File(ReportPath(timestamp, "json"), "JSON.stringify(report)")
      mdFile == File(ReportPath(timestamp, "md"), "generateMarkdown(report)")
  IN [written |-> IF failsAt \in {"mkdir", "json"} THEN <<>>
                  ELSE IF failsAt = "md" THEN <<jsonFile>>
                  ELSE <<jsonFile, mdFile>>,
      returned |-> failsAt = "none"]

Date(y, mo, d, h, mi, sec, ms) ==
  [year |-> y, month |-> mo, day |-> d, hours |-> h, minutes |-> mi,
   seconds |-> sec, ms |-> ms]

\* The clock reading of a run of the benchmark CLI; SpecToken varies it.
ClockReadings == {Date(2026, 11, 6, 9, 5, 59, 999)}

NoDate == [year |-> 0, month |-> 0, day |-> 0, hours |-> 0, minutes |-> 0,
           seconds |-> 0, ms |-> 0]

IdleFiles == now = NoDate /\ files = <<>>

----------------------------------------------------------------------------
(* The data-generation CLI, in its three revisions:                         *)
(*   "runScenario"  src/src/benchmark.ts 399-766 (one scenario, two steps), *)
(*   "generate2"    src/unnamed/part_005 (two generate calls),              *)
(*   "generate1"    src/unnamed/part_004 (samples only).                    *)

GenVariants == {"runScenario", "generate2", "generate1"}

CATEGORY_COUNT == 10000
DefaultBatchSize == 10000000
\* rows: { type: "string", short: "n", default: "100000000" }
DefaultRows == DigitsOf(100000000, 9)

DigitChars == {ToString(d) : d \in 0..9}
DigitValue(c) == CHOOSE d \in 0..9 : ToString(d) = c

RECURSIVE ParseDigits(_, _)
ParseDigits(str, acc) ==
  IF str = <<>> \/ Head(str) \notin DigitChars THEN acc
  ELSE ParseDigits(Tail(str), 10 * acc + DigitValue(Head(str)))

\* parseInt(str, 10) of a string that starts with a digit: the value of its
\* leading digits.
parseInt(str) == ParseDigits(str, 0)

\* parseNumber: value.replace(/_/g, "") then parseInt
parseNumber(value) == parseInt(SelectSeq(value, LAMBDA c : c # "_"))

\* -n values: "1", "10_000", "20000", or the default.
RowArgs ==
  {DigitsOf(1, 1), DigitsOf(10, 2) \o <<"_">> \o DigitsOf(0, 3),
   DigitsOf(20000, 5), DefaultRows}

Arg(given, text) == [given |-> given, text |-> text]

\* -b values: absent, "", "5_000", "10000", "20000".
BatchArgs ==
  {Arg(FALSE, <<>>), Arg(TRUE, <<>>),
   Arg(TRUE, DigitsOf(5, 1) \o <<"_">> \o DigitsOf(0, 3)),
   Arg(TRUE, DigitsOf(10000, 5)), Arg(TRUE, DigitsOf(20000, 5))}

genParseArgs(flags, rows, batch, help) ==
  [postgres |-> "postgres" \in flags,
   clickhouse |-> "clickhouse" \in flags,
   trino |-> "trino" \in flags,
   rows |-> rows, batch |-> batch, help |-> help]

ROW_COUNT == parseNumber(genValues.rows)
BATCH_SIZE ==
  IF genValues.batch.given /\ genValues.batch.text # <<>>
  THEN parseNumber(genValues.batch.text)
  ELSE DefaultBatchSize

genNoDbSelected == ~genValues.postgres /\ ~genValues.clickhouse /\ ~genValues.trino

DATABASES == <<"PostgreSQL", "ClickHouse", "Trino/Iceberg">>

dbsToRun ==
  IF genNoDbSelected THEN DATABASES
  ELSE SelectSeq(DATABASES,
         LAMBDA db : \/ genValues.postgres /\ db = "PostgreSQL"
                     \/ genValues.clickhouse /\ db = "ClickHouse"
                     \/ genValues.trino /\ db = "Trino/Iceberg")

Step(table, rowCount, batchSize) ==
  [table |-> table, rowCount |-> rowCount, batchSize |-> batchSize]

\* Mutant: samples are loaded before categories.
Steps_SamplesFirst ==
  IF variant = "generate1"
  THEN <<Step("samples", ROW_COUNT, BATCH_SIZE)>>
  ELSE <<Step("samples", ROW_COUNT, BATCH_SIZE),
         Step("categories", CATEGORY_COUNT, CATEGORY_COUNT)>>

\* The table loads of one engine, in order, with the row count and the batch
\* size each one is given.  runScenario gets one batchSize for all its steps.
Steps ==
  IF variant = "runScenario"
  THEN <<Step("categories", CATEGORY_COUNT, BATCH_SIZE),
         Step("samples", ROW_COUNT, BATCH_SIZE)>>
  ELSE IF variant = "generate2"
  THEN <<Step("categories", CATEGORY_COUNT, CATEGORY_COUNT),
         Step("samples", ROW_COUNT, BATCH_SIZE)>>
  ELSE <<Step("samples", ROW_COUNT, BATCH_SIZE)>>

\* The generator library inserts rowCount rows in batches of at most batchSize.
NumBatches(rowCount, batchSize) == (rowCount + batchSize - 1) \div batchSize
BatchRows(remaining, batchSize) ==
  IF remaining < batchSize THEN remaining ELSE batchSize

TableNames == {"categories", "samples"}
EmptyTable == [rows |-> 0, batches |-> 0]

IdleGenerate ==
  /\ variant = "runScenario"
  /\ genValues = genParseArgs({}, DefaultRows, Arg(FALSE, <<>>), FALSE)
  /\ di = 1 /\ si = 1
  /\ generator = [db \in Range(DATABASES) |-> "none"]
  /\ tables = [db \in Range(DATABASES) |-> [t \in TableNames |-> EmptyTable]]
  /\ loadOrder = [db \in Range(DATABASES) |-> <<>>]
  /\ thrown = FALSE
  /\ attempted = <<>>

----------------------------------------------------------------------------
(* src/optuna/OPTIMIZER_GUIDE.md: the result cache and the objective.       *)
(* A Python dict is a sequence of <<name, value>> pairs in insertion order, *)
(* with no name twice.                                                     *)

\* Parameter names in the order sort_keys=True puts them.
SortedNames == <<"cache_mb", "cpu", "max_connections", "ram_gb">>
NameRank(name) == CHOOSE k \in 1..Len(SortedNames) : SortedNames[k] = name

InfraNames == {"cpu", "ram_gb"}
ConfigNames == {"max_connections", "cache_mb"}

HasName(dict, name) == \E k \in 1..Len(dict) : dict[k][1] = name

\* dict[name] = value
Put(dict, name, value) ==
  IF HasName(dict, name)
  THEN [k \in 1..Len(dict) |->
          IF dict[k][1] = name THEN <<name, value>> ELSE dict[k]]
  ELSE Append(dict, <<name, value>>)

RECURSIVE Merge(_, _)
\* {**a, **b}
Merge(a, b) ==
  IF b = <<>> THEN a ELSE Merge(Put(a, Head(b)[1], Head(b)[2]), Tail(b))

RECURSIVE InsertByName(_, _)
InsertByName(pair, dict) ==
  IF dict = <<>> THEN <<pair>>
  ELSE IF NameRank(pair[1]) < NameRank(Head(dict)[1]) THEN <<pair>> \o dict
  ELSE <<Head(dict)>> \o InsertByName(pair, Tail(dict))

RECURSIVE SortByName(_)
SortByName(dict) ==
  IF dict = <<>> THEN <<>>
  ELSE InsertByName(Head(dict), SortByName(Tail(dict)))

\* json.dumps of a dict of integers, in the order given
JsonDumps(dict) ==
  "{" \o Join([k \in 1..Len(dict) |->
                 "\"" \o dict[k][1] \o "\": " \o ToString(dict[k][2])], ", ")
      \o "}"

\* Mutant: json.dumps without sort_keys.
config_to_key_Unsorted(infra, config) == JsonDumps(Merge(infra, config))

\* config_to_key 89-92
config_to_key(infra, config) == JsonDumps(SortByName(Merge(infra, config)))

\* An optional field of a JSON object or of a dataclass (absent or None when
\* ~present).
Absent == [present |-> FALSE, value |-> 0]
Present(value) == [present |-> TRUE, value |-> value]
NoError == [present |-> FALSE, value |-> ""]
Error(message) == [present |-> TRUE, value |-> message]

\* A cache record: save_result writes trial, timestamp, infra, config and
\* metrics; find_cached_result reads the top-level fields error and
\* throughput.  The timestamp is left out.
CacheRecord(trial, infra, config, error, throughput, metrics) ==
  [trial |-> trial, infra |-> infra, config |-> config, error |-> error,
   throughput |-> throughput, metrics |-> metrics]

\* r.get("error") as a condition: set and not empty
ErrorTruthy(r) == r.error.present /\ r.error.value # ""
\* r.get("throughput", 0)
GetThroughput(r) == IF r.throughput.present THEN r.throughput.value ELSE 0

\* Mutant: the first record with the key is returned, failed or not.
find_cached_result_NoSkip(infra, config, records) ==
  LET key == config_to_key(infra, config)
      hits == {k \in 1..Len(records) :
                 config_to_key(records[k].infra, records[k].config) = key}
  IN IF hits = {} THEN <<>>
     ELSE <<records[CHOOSE k \in hits : \A j \in hits : k <= j]>>

\* find_cached_result 94-102 on the loaded records; <<>> stands for None.
find_cached_result(infra, config, records) ==
  LET key == config_to_key(infra, config)
      hits == {k \in 1..Len(records) :
                 /\ config_to_key(records[k].infra, records[k].config) = key
                 /\ ~(ErrorTruthy(records[k]) \/ GetThroughput(records[k]) <= 0)}
  IN IF hits = {} THEN <<>>
     ELSE <<records[CHOOSE k \in hits : \A j \in hits : k <= j]>>

\* BenchmarkResult 36-50
BenchmarkResultOf(throughput, error) == [throughput |-> throughput, error |-> error]
is_valid(result) == ~result.error.present /\ result.throughput > 0

\* Mutant: the file is rewritten with the new record only.
save_result_Overwrite(records, infra, config, result, trial_num) ==
  <<CacheRecord(trial_num, infra, config, NoError, Absent,
                Present(result.throughput))>>

\* save_result 104-121: the record appended to the loaded records
save_result(records, infra, config, result, trial_num) ==
  Append(records,
         CacheRecord(trial_num, infra, config, NoError, Absent,
                     Present(result.throughput)))

\* get_metric_value for the throughput metric: of a cache record, the stored
\* metrics.throughput, or the top-level throughput of a record without
\* metrics; of a BenchmarkResult, its throughput.
get_metric_value_cached(r) ==
  IF r.metrics.present THEN r.metrics.value ELSE GetThroughput(r)
get_metric_value_result(result) == result.throughput

\* What parse_benchmark_output can return: a rate, no rate, or an error.
ParsedResults ==
  {BenchmarkResultOf(100, NoError), BenchmarkResultOf(0, NoError),
   BenchmarkResultOf(0, Error("Failed to parse results"))}

\* trial.suggest_*: the values a trial can sample.
SampledInfra == {<<<<"cpu", c>>, <<"ram_gb", 4>>>> : c \in {2, 4}}
SampledConfig == {<<<<"max_connections", m>>, <<"cache_mb", 64>>>> : m \in {50, 51}}

NoSample == [infra |-> <<>>, config |-> <<>>]
NoResult == BenchmarkResultOf(0, NoError)
NoTrialOutcome == [kind |-> "none", metric |-> 0, key |-> "", trial |-> -1]

IdleOptimizer ==
  /\ cacheFile = <<>>
  /\ trialNumber = 0
  /\ sampled = NoSample
  /\ cached = <<>>
  /\ benchResult = NoResult
  /\ ran = {}
  /\ trialOutcome = NoTrialOutcome
  /\ savedKeys = {}
  /\ cacheAtStart = <<>>

IdleKey == keyArgs = <<>> /\ keys = <<>>

\* main 244-256: the options and their defaults
Metrics == {"throughput", "p95_ms", "cost_efficiency"}
DefaultTrials == 20
OptArgs(show_results, destroy, keep_infra, trials, metric) ==
  [show_results |-> show_results, destroy |-> destroy,
   keep_infra |-> keep_infra, trials |-> trials, metric |-> metric]

IdleMain ==
  /\ optArgs = OptArgs(FALSE, FALSE, FALSE, DefaultTrials, "throughput")
  /\ direction = "none"
  /\ destroyCalls = 0
  /\ escaped = FALSE

----------------------------------------------------------------------------
(* src/all-checks.sh and src/health.sh *)

\* The external commands of the two scripts, in the order they appear.
Commands == <<"pnpm format", "pnpm lint", "pnpm typecheck", "pnpm test",
              "gitleaks detect --source . -v", "pnpm audit --prod">>

\* What the commands exit with, whether gitleaks is on the PATH, and whether
\* pnpm outdated lists a package.
Exits(codes, installed, outdated) ==
  [codes |-> codes, installed |-> installed, outdated |-> outdated]

IdleShell ==
  /\ exits = Exits([c \in Range(Commands) |-> 0], TRUE, FALSE)
  /\ stdout = <<>>
  /\ cmds = <<>>
  /\ shExit = -1

----------------------------------------------------------------------------
(* src/terraform/selectel/minio.tf *)

TfInput(enabled, node_count, drives_per_node) ==
  [minio_enabled |-> enabled, minio_node_count |-> node_count,
   minio_drives_per_node |-> drives_per_node]

\* variable defaults 4-32
DefaultNodeCount == 2
DefaultDrivesPerNode == 3

NoTfState == [applied |-> FALSE]

\* range(n) of the configuration language: 0, 1, ..., n - 1
range(n) == [k \in 1..n |-> k - 1]

\* element(list, index): the index wraps around at the length of the list
element(list, index) == list[(index % Len(list)) + 1]

\* A runcmd entry of the cloud-init document: a command and its arguments.
Cmd(name, args) == [cmd |-> name, args |-> args]

PrivateIp(index) == "10.0.0." \o ToString(10 + index)
DataPath(n) == "/data" \o ToString(n)

\* Mutant: the addresses of the hosts entries start one too high.
minio_hosts_entries_OffByOne(input) ==
  [k \in 1..input.minio_node_count |->
     Cmd("hosts", <<PrivateIp(range(input.minio_node_count)[k] + 1),
                    "minio" \o ToString(range(input.minio_node_count)[k] + 1)>>)]

\* 154-156: echo '10.0.0.${10 + i} minio${i + 1}' >> /etc/hosts
minio_hosts_entries(input) ==
  [k \in 1..input.minio_node_count |->
     Cmd("hosts", <<PrivateIp(range(input.minio_node_count)[k]),
                    "minio" \o ToString(range(input.minio_node_count)[k] + 1)>>)]

\* 159
DriveLetterList == <<"b", "c", "d", "e", "f", "g", "h", "i", "j">>
drive_letters(input) ==
  [k \in 1..input.minio_drives_per_node |->
     element(DriveLetterList, range(input.minio_drives_per_node)[k])]

Device(letter) == "/dev/sd" \o letter

\* 162-164: mkfs.xfs -f /dev/sd${letter}
minio_format_cmds(input) ==
  [k \in 1..input.minio_drives_per_node |->
     Cmd("mkfs", <<Device(drive_letters(input)[k])>>)]

\* 167: mkdir -p /data1 ... /dataM
minio_mkdir_cmd(input) ==
  Cmd("mkdir", [k \in 1..input.minio_drives_per_node |-> DataPath(k)])

\* 170-172: mount /dev/sd${local.drive_letters[i]} /data${i + 1}
minio_mount_cmds(input) ==
  [k \in 1..input.minio_drives_per_node |->
     Cmd("mount", <<Device(drive_letters(input)[range(input.minio_drives_per_node)[k] + 1]),
                    DataPath(range(input.minio_drives_per_node)[k] + 1)>>)]

\* 175-177: echo '/dev/sd... /data... xfs defaults,noatime 0 2' >> /etc/fstab
minio_fstab_cmds(input) ==
  [k \in 1..input.minio_drives_per_node |->
     Cmd("fstab", <<Device(drive_letters(input)[range(input.minio_drives_per_node)[k] + 1]),
                    DataPath(range(input.minio_drives_per_node)[k] + 1)>>)]

\* 183
minio_volume_spec(input) ==
  "http://minio{1..." \o ToString(input.minio_node_count)
    \o "}:9000/data{1..." \o ToString(input.minio_drives_per_node) \o "}"

\* 185-258: the runcmd entries that prepare names and drives, and the
\* MINIO_VOLUMES line of the environment file.
minio_cloud_init(input) ==
  [runcmd |-> minio_hosts_entries(input) \o minio_format_cmds(input)
                \o <<minio_mkdir_cmd(input)>> \o minio_mount_cmds(input)
                \o minio_fstab_cmds(input),
   MINIO_VOLUMES |-> minio_volume_spec(input)]

\* count = var.minio_enabled ? n : 0
Count(input, n) == IF input.minio_enabled THEN n ELSE 0

\* 105-113
minio_boot(input) ==
  [k \in 1..Count(input, input.minio_node_count) |->
     [name |-> "minio-" \o ToString((k - 1) + 1) \o "-boot"]]

\* 116-128: count.index is k - 1
minio_data(input) ==
  [k \in 1..Count(input, input.minio_node_count * input.minio_drives_per_node) |->
     [name |-> "minio-"
                 \o ToString(((k - 1) \div input.minio_drives_per_node) + 1)
                 \o "-data-"
                 \o ToString(((k - 1) % input.minio_drives_per_node) + 1)]]

\* 131-149
minio_port(input) ==
  [k \in 1..Count(input, input.minio_node_count) |->
     [name |-> "minio-" \o ToString((k - 1) + 1) \o "-port",
      ip_address |-> PrivateIp(k - 1)]]

\* Mutant: the data volumes of a node are not strided by drives_per_node.
DataIndex_NoStride(input, count_index, value) == count_index + value

\* 288: count.index * var.minio_drives_per_node + block_device.value
DataIndex(input, count_index, value) ==
  count_index * input.minio_drives_per_node + value

\* A block_device: the resource list and index its uuid refers to, and its
\* boot_index.
BlockDevice(list, index, boot_index) ==
  [list |-> list, index |-> index, boot_index |-> boot_index]

\* 262-305: count.index is k - 1
minio_instance(input) ==
  [k \in 1..Count(input, input.minio_node_count) |->
     [name |-> "minio-" \o ToString((k - 1) + 1),
      port |-> k - 1,
      user_data |-> minio_cloud_init(input),
      block_device |->
        <<BlockDevice("minio_boot", k - 1, 0)>> \o
        [j \in 1..input.minio_drives_per_node |->
           BlockDevice("minio_data",
                       DataIndex(input, k - 1, range(input.minio_drives_per_node)[j]),
                       range(input.minio_drives_per_node)[j] + 1)]]]

\* 311-314 (<<>> stands for null)
minio_internal_endpoints(input) ==
  IF input.minio_enabled
  THEN [k \in 1..input.minio_node_count |->
          "http://" \o PrivateIp(range(input.minio_node_count)[k]) \o ":9000"]
  ELSE <<>>

\* terraform apply: every resource and output of the file
Apply(input) ==
  [applied |-> TRUE,
   minio_boot |-> minio_boot(input),
   minio_data |-> minio_data(input),
   minio_port |-> minio_port(input),
   minio |-> minio_instance(input),
   minio_internal_endpoints |-> minio_internal_endpoints(input)]

\* What a node's first boot has done so far.
FreshNode == [booted |-> FALSE, hosts |-> {}, formatted |-> <<>>, dirs |-> {},
              mounts |-> {}, fstab |-> <<>>]

\* One runcmd entry executed on a node.
Exec(node, c) ==
  CASE c.cmd = "hosts" -> [node EXCEPT !.hosts = @ \cup {c.args}]
    [] c.cmd = "mkfs" -> [node EXCEPT !.formatted = Append(@, c.args[1])]
    [] c.cmd = "mkdir" -> [node EXCEPT !.dirs = @ \cup Range(c.args)]
    [] c.cmd = "mount" ->
         IF c.args[2] \in node.dirs /\ c.args[1] \in Range(node.formatted)
         THEN [node EXCEPT !.mounts = @ \cup {c.args}]
         ELSE node
    [] c.cmd = "fstab" -> [node EXCEPT !.fstab = Append(@, c.args)]

RECURSIVE RunCmds(_, _)
\* cloud-init runs the runcmd entries in order.
RunCmds(node, runcmd) ==
  IF runcmd = <<>> THEN node
  ELSE RunCmds(Exec(node, Head(runcmd)), Tail(runcmd))

IdleTerraform ==
  /\ tfInput = TfInput(FALSE, DefaultNodeCount, DefaultDrivesPerNode)
  /\ tfState = NoTfState
  /\ nodes = <<>>

IdleOps == IdleShell /\ IdleTerraform

IdleLater == IdleGenerate /\ IdleOptimizer /\ IdleKey /\ IdleMain /\ IdleOps

----------------------------------------------------------------------------
(* src/src/benchmark.ts: the benchmark CLI *)

NoOutcome == [kind |-> "none", database |-> "", query |-> "", index |-> 0,
              errorsPrinted |-> 0, total |-> 0, stats |-> <<>>]

runner == MainOrder[ei]
queryDef == queriesToRun[qi]

\* Mutant: the warmup call is given the measured-run count.
runs_AlwaysMeasured == BENCHMARK_RUNS

\* The runs argument of the active runBenchmark call.
runs == IF phase = "warmup" THEN WARMUP_RUNS ELSE BENCHMARK_RUNS

ErrorLine(kind, text) == [kind |-> kind, text |-> text]

InitAdapters ==
  /\ client = [a \in EngineSet |-> Null]
  /\ nextClient = 0
  /\ ended = <<>>
  /\ sent = [a \in EngineSet |-> 0]

IdleHarness ==
  /\ live = [a \in EngineSet |-> FALSE]
  /\ last = [adapter |-> "", op |-> "none", liveBefore |-> FALSE,
             raised |-> "", sent |-> FALSE, closed |-> <<>>, fieldAfter |-> Null]
  /\ ncalls = 0

Init ==
  /\ argv \in SeqsUpTo(EngineSet, MaxFlags)
  /\ \E w \in 0..MaxWarmup, r \in 0..MaxRuns, q \in QueryArgs :
       values = parseArgs(argv, w, r, q)
  /\ \E noSql \in NoSqlChoices : QUERIES = Catalog(noSql)
  /\ pc = "start"
  /\ exitCode = 0
  /\ ei = 1 /\ qi = 1 /\ phase = "warmup" /\ i = 0
  /\ results = <<>>
  /\ inFlight = 0
  /\ dbResult = [database |-> "", results |-> <<>>]
  /\ report = [databases |-> <<>>]
  /\ stderr = <<>>
  /\ lastOutcome = NoOutcome
  /\ visited = <<>> /\ queriesVisited = <<>>
  /\ warmupDone = 0 /\ measuredDone = 0
  /\ connectCalls = 0 /\ issued = 0
  /\ measuredOk = <<>> /\ passRaised = {}
  /\ InitAdapters
  /\ IdleHarness
  /\ md = NoMarkdown
  /\ IdleFiles
  /\ IdleStats
  /\ IdleFormat
  /\ IdleLater

\* benchmark.ts 227-233: an unknown -q name ends the process before main.
FilterNotFound ==
  /\ pc = "start"
  /\ Truthy(queryFilter) /\ Len(queriesToRun) = 0
  /\ stderr' = <<ErrorLine("notfound", queryFilter.name)>>
                 \o [k \in 1..Len(QUERIES) |-> ErrorLine("available", QUERIES[k].name)]
  /\ exitCode' = 1
  /\ pc' = "exited"
  /\ UNCHANGED <<argv, values, QUERIES, ei, qi, phase, i, results, inFlight,
                 dbResult, report, lastOutcome, visited, queriesVisited,
                 warmupDone, measuredDone, connectCalls, issued>>
  /\ UNCHANGED <<adapterVars, harnessVars, md, extVars>>
  /\ UNCHANGED <<measuredOk, passRaised>>

\* Mutant: main is entered whatever the filter matched.
EnterMain_NoCheck ==
  /\ pc = "start"
  /\ pc' = "main"
  /\ ei' = 1
  /\ report' = [databases |-> <<>>]
  /\ UNCHANGED <<argv, values, QUERIES, exitCode, qi, phase, i, results, inFlight,
                 dbResult, stderr, lastOutcome, visited, queriesVisited,
                 warmupDone, measuredDone, connectCalls, issued>>
  /\ UNCHANGED <<adapterVars, harnessVars, md, extVars>>
  /\ UNCHANGED <<measuredOk, passRaised>>

EnterMain ==
  /\ pc = "start"
  /\ ~(Truthy(queryFilter) /\ Len(queriesToRun) = 0)
  /\ pc' = "main"
  /\ ei' = 1
  /\ report' = [databases |-> <<>>]
  /\ UNCHANGED <<argv, values, QUERIES, exitCode, qi, phase, i, results, inFlight,
                 dbResult, stderr, lastOutcome, visited, queriesVisited,
                 warmupDone, measuredDone, connectCalls, issued>>
  /\ UNCHANGED <<adapterVars, harnessVars, md, extVars>>
  /\ UNCHANGED <<measuredOk, passRaised>>

\* main 308-318: an engine whose flag is off is passed over.
SkipEngine ==
  /\ pc = "main" /\ ei <= Len(MainOrder)
  /\ ~runFlag(ei)
  /\ ei' = ei + 1
  /\ UNCHANGED <<argv, values, QUERIES, pc, exitCode, qi, phase, i, results,
                 inFlight, dbResult, report, stderr, lastOutcome, visited,
                 queriesVisited, warmupDone, measuredDone, connectCalls, issued>>
  /\ UNCHANGED <<adapterVars, harnessVars, md, extVars>>
  /\ UNCHANGED <<measuredOk, passRaised>>

\* benchmarkDatabase 236-237, on a fresh runner.
BeginPass ==
  /\ pc = "main" /\ ei <= Len(MainOrder)
  /\ runFlag(ei)
  /\ visited' = Append(visited, runner)
  /\ dbResult' = [database |-> runner, results |-> <<>>]
  /\ queriesVisited' = <<>>
  /\ lastOutcome' = NoOutcome
  /\ pc' = "connect"
  /\ UNCHANGED <<argv, values, QUERIES, exitCode, ei, qi, phase, i, results,
                 inFlight, report, stderr, warmupDone, measuredDone,
                 connectCalls, issued>>
  /\ UNCHANGED <<adapterVars, harnessVars, md, extVars>>
  /\ UNCHANGED <<measuredOk, passRaised>>

\* Mutant: a raise in connect is not caught and reaches main().catch.
Connect_Uncaught ==
  /\ pc = "connect"
  /\ \E libThrows \in BOOLEAN :
       LET r == connect(runner, client[runner], libThrows, nextClient + 1) IN
       /\ client' = [client EXCEPT ![runner] = r.field]
       /\ nextClient' = IF libThrows THEN nextClient ELSE nextClient + 1
       /\ connectCalls' = connectCalls + 1
       /\ passRaised' = IF libThrows THEN passRaised \cup {<<runner, "connect">>}
                        ELSE passRaised
       /\ IF r.raised # ""
          THEN /\ stderr' = Append(stderr, ErrorLine("fatal", runner))
               /\ exitCode' = 1
               /\ pc' = "exited"
               /\ qi' = qi
          ELSE /\ stderr' = stderr
               /\ exitCode' = exitCode
               /\ pc' = "query"
               /\ qi' = 1
  /\ UNCHANGED <<argv, values, QUERIES, ei, phase, i, results, inFlight,
                 dbResult, report, lastOutcome, visited, queriesVisited,
                 warmupDone, measuredDone, issued>>
  /\ UNCHANGED <<ended, sent, harnessVars, md, extVars>>
  /\ UNCHANGED measuredOk

\* benchmarkDatabase 240-241, and the catch of 289-291 when connect raises.
Connect ==
  /\ pc = "connect"
  /\ \E libThrows \in BOOLEAN :
       LET r == connect(runner, client[runner], libThrows, nextClient + 1) IN
       /\ client' = [client EXCEPT ![runner] = r.field]
       /\ nextClient' = IF libThrows THEN nextClient ELSE nextClient + 1
       /\ connectCalls' = connectCalls + 1
       /\ passRaised' = IF libThrows THEN passRaised \cup {<<runner, "connect">>}
                        ELSE passRaised
       /\ IF r.raised # ""
          THEN /\ stderr' = Append(stderr, ErrorLine("engine", runner))
               /\ pc' = "return"
               /\ qi' = qi
          ELSE /\ stderr' = stderr
               /\ pc' = "query"
               /\ qi' = 1
  /\ UNCHANGED <<argv, values, QUERIES, exitCode, ei, phase, i, results, inFlight,
                 dbResult, report, lastOutcome, visited, queriesVisited,
                 warmupDone, measuredDone, issued>>
  /\ UNCHANGED <<ended, sent, harnessVars, md, extVars>>
  /\ UNCHANGED measuredOk

\* benchmarkDatabase 243-253: the next queryDef, and which call comes first.
NextQuery ==
  /\ pc = "query" /\ qi <= Len(queriesToRun)
  /\ queriesVisited' = Append(queriesVisited, queryDef.name)
  /\ warmupDone' = 0 /\ measuredDone' = 0
  /\ phase' = IF WARMUP_RUNS > 0 THEN "warmup" ELSE "measure"
  /\ pc' = "rb_enter"
  /\ UNCHANGED <<argv, values, QUERIES, exitCode, ei, qi, i, results, inFlight,
                 dbResult, report, stderr, lastOutcome, visited,
                 connectCalls>>
  /\ UNCHANGED <<adapterVars, harnessVars, md, extVars>>
  /\ issued' = 0
  /\ measuredOk' = <<>>
  /\ UNCHANGED passRaised

\* Where control goes when the active runBenchmark call returns.
ReturnFromRunBenchmark ==
  IF phase = "warmup"
  THEN phase' = "measure" /\ pc' = "rb_enter"
  ELSE phase' = phase /\ pc' = "evaluate"

\* runBenchmark 118-121: no SQL text for this engine, return [].
RunBenchmarkNoSql ==
  /\ pc = "rb_enter"
  /\ ~queryDef.sql[runner]
  /\ results' = <<>>
  /\ ReturnFromRunBenchmark
  /\ UNCHANGED <<argv, values, QUERIES, exitCode, ei, qi, i, inFlight,
                 dbResult, report, stderr, lastOutcome, visited, queriesVisited,
                 warmupDone, measuredDone, connectCalls, issued>>
  /\ UNCHANGED <<adapterVars, harnessVars, md, extVars>>
  /\ UNCHANGED <<measuredOk, passRaised>>

\* Mutant: the loop is entered without looking at the SQL text.
RunBenchmarkStart_NoSqlCheck ==
  /\ pc = "rb_enter"
  /\ results' = <<>>
  /\ i' = 0
  /\ pc' = "rb_loop"
  /\ UNCHANGED <<argv, values, QUERIES, exitCode, ei, qi, phase, inFlight,
                 dbResult, report, stderr, lastOutcome, visited, queriesVisited,
                 warmupDone, measuredDone, connectCalls, issued>>
  /\ UNCHANGED <<adapterVars, harnessVars, md, extVars>>
  /\ UNCHANGED <<measuredOk, passRaised>>

\* runBenchmark 123-125: results = [], i = 0.
RunBenchmarkStart ==
  /\ pc = "rb_enter"
  /\ queryDef.sql[runner]
  /\ results' = <<>>
  /\ i' = 0
  /\ pc' = "rb_loop"
  /\ UNCHANGED <<argv, values, QUERIES, exitCode, ei, qi, phase, inFlight,
                 dbResult, report, stderr, lastOutcome, visited, queriesVisited,
                 warmupDone, measuredDone, connectCalls, issued>>
  /\ UNCHANGED <<adapterVars, harnessVars, md, extVars>>
  /\ UNCHANGED <<measuredOk, passRaised>>

\* runBenchmark 125-127: i < runs, runQuery is called and awaited.
LoopIssue ==
  /\ pc = "rb_loop"
  /\ i < runs
  /\ inFlight' = inFlight + 1
  /\ issued' = issued + 1
  /\ pc' = "rb_await"
  /\ UNCHANGED <<argv, values, QUERIES, exitCode, ei, qi, phase, i, results,
                 dbResult, report, stderr, lastOutcome, visited, queriesVisited,
                 warmupDone, measuredDone, connectCalls>>
  /\ UNCHANGED <<adapterVars, harnessVars, md, extVars>>
  /\ UNCHANGED <<measuredOk, passRaised>>

\* The BenchmarkResult pushed for one runQuery return (runBenchmark 128-142).
BenchmarkResult(query, database, r) ==
  IF r.raised = ""
  THEN [query |-> query, database |-> database, durationMs |-> r.durationMs,
        rowsReturned |-> r.rowCount, error |-> ""]
  ELSE [query |-> query, database |-> database, durationMs |-> 0,
        rowsReturned |-> 0, error |-> r.raised]

\* runBenchmark 126-143: the awaited runQuery settles, one result is pushed, i++.
LoopComplete ==
  /\ pc = "rb_await"
  /\ \E outcome \in EngineOutcomes :
       LET r == runQuery(runner, client[runner], outcome) IN
       /\ results' = Append(results, BenchmarkResult(queryDef.name, runner, r))
       /\ sent' = [sent EXCEPT ![runner] = IF r.sent THEN @ + 1 ELSE @]
       /\ measuredOk' = IF phase = "measure" /\ outcome.ok /\ client[runner] # Null
                        THEN Append(measuredOk, outcome.durationMs) ELSE measuredOk
  /\ i' = i + 1
  /\ inFlight' = inFlight - 1
  /\ warmupDone' = IF phase = "warmup" THEN warmupDone + 1 ELSE warmupDone
  /\ measuredDone' = IF phase = "measure" THEN measuredDone + 1 ELSE measuredDone
  /\ pc' = "rb_loop"
  /\ UNCHANGED <<argv, values, QUERIES, exitCode, ei, qi, phase,
                 dbResult, report, stderr, lastOutcome, visited, queriesVisited,
                 connectCalls, issued>>
  /\ UNCHANGED <<client, nextClient, ended, harnessVars, md, extVars>>
  /\ UNCHANGED passRaised

\* runBenchmark 145: the loop is over, results is returned.
LoopExit ==
  /\ pc = "rb_loop"
  /\ ~(i < runs)
  /\ ReturnFromRunBenchmark
  /\ UNCHANGED <<argv, values, QUERIES, exitCode, ei, qi, i, results, inFlight,
                 dbResult, report, stderr, lastOutcome, visited, queriesVisited,
                 warmupDone, measuredDone, connectCalls, issued>>
  /\ UNCHANGED <<adapterVars, harnessVars, md, extVars>>
  /\ UNCHANGED <<measuredOk, passRaised>>

\* Mutant: the error filter finds nothing.
ErrorsOf_None(rs) == <<>>

\* results.filter((r) => r.error)
ErrorsOf(rs) == SelectSeq(rs, LAMBDA r : r.error # "")

Outcome(kind, errs, stats) ==
  [kind |-> kind, database |-> runner, query |-> queryDef.name, index |-> qi,
   errorsPrinted |-> errs, total |-> Len(results), stats |-> stats]

\* benchmarkDatabase 256-259.
EvalSkipped ==
  /\ pc = "evaluate"
  /\ Len(results) = 0
  /\ lastOutcome' = Outcome("skipped", 0, <<>>)
  /\ results' = <<>>
  /\ qi' = qi + 1
  /\ pc' = "query"
  /\ UNCHANGED <<argv, values, QUERIES, exitCode, ei, phase, i, inFlight,
                 dbResult, report, stderr, visited, queriesVisited,
                 warmupDone, measuredDone, connectCalls, issued>>
  /\ UNCHANGED <<adapterVars, harnessVars, md, extVars>>
  /\ UNCHANGED <<measuredOk, passRaised>>

\* benchmarkDatabase 261-268.
EvalErrors ==
  /\ pc = "evaluate"
  /\ Len(results) # 0
  /\ Len(ErrorsOf(results)) > 0
  /\ lastOutcome' = Outcome("errors", Len(ErrorsOf(results)), <<>>)
  /\ results' = <<>>
  /\ qi' = qi + 1
  /\ pc' = "query"
  /\ UNCHANGED <<argv, values, QUERIES, exitCode, ei, phase, i, inFlight,
                 dbResult, report, stderr, visited, queriesVisited,
                 warmupDone, measuredDone, connectCalls, issued>>
  /\ UNCHANGED <<adapterVars, harnessVars, md, extVars>>
  /\ UNCHANGED <<measuredOk, passRaised>>

QueryResult(name, stats) ==
  [query |-> name, minMs |-> stats.min, avgMs |-> stats.avg,
   p95Ms |-> stats.p95, maxMs |-> stats.max]

\* benchmarkDatabase 270-284.
EvalStats ==
  /\ pc = "evaluate"
  /\ Len(results) # 0
  /\ Len(ErrorsOf(results)) = 0
  /\ LET durations == [k \in 1..Len(results) |-> results[k].durationMs]
         stats == calculateStats(durations)
     IN /\ lastOutcome' = Outcome("results", 0, <<stats>>)
        /\ dbResult' = [dbResult EXCEPT
                          !.results = Append(@, QueryResult(queryDef.name, stats))]
  /\ results' = <<>>
  /\ qi' = qi + 1
  /\ pc' = "query"
  /\ UNCHANGED <<argv, values, QUERIES, exitCode, ei, phase, i, inFlight,
                 report, stderr, visited, queriesVisited,
                 warmupDone, measuredDone, connectCalls, issued>>
  /\ UNCHANGED <<adapterVars, harnessVars, md, extVars>>
  /\ UNCHANGED <<measuredOk, passRaised>>

\* benchmarkDatabase 287-291: disconnect after the last query; a raise is caught.
Disconnect ==
  /\ pc = "query" /\ qi > Len(queriesToRun)
  /\ \E closeRejects \in BOOLEAN :
       LET r == disconnect(runner, client[runner], closeRejects) IN
       /\ client' = [client EXCEPT ![runner] = r.field]
       /\ ended' = ended \o r.closed
       /\ passRaised' = IF closeRejects /\ client[runner] # Null /\ runner # "trino"
                        THEN passRaised \cup {<<runner, "disconnect">>} ELSE passRaised
       /\ stderr' = IF r.raised # ""
                    THEN Append(stderr, ErrorLine("engine", runner))
                    ELSE stderr
  /\ pc' = "return"
  /\ UNCHANGED <<argv, values, QUERIES, exitCode, ei, qi, phase, i, results,
                 inFlight, dbResult, report, lastOutcome, visited, queriesVisited,
                 warmupDone, measuredDone, connectCalls, issued>>
  /\ UNCHANGED <<nextClient, sent, harnessVars, md, extVars>>
  /\ UNCHANGED measuredOk

\* benchmarkDatabase 293 and main 309/313/317: the pass's result joins the report.
Return ==
  /\ pc = "return"
  /\ report' = [report EXCEPT !.databases = Append(@, dbResult)]
  /\ ei' = ei + 1
  /\ pc' = "main"
  /\ UNCHANGED <<argv, values, QUERIES, exitCode, qi, phase, i, results, inFlight,
                 dbResult, stderr, lastOutcome, visited, queriesVisited,
                 warmupDone, measuredDone, connectCalls, issued>>
  /\ UNCHANGED <<adapterVars, harnessVars, md, extVars>>
  /\ UNCHANGED <<measuredOk, passRaised>>

\* main 320-324 without --report.
Done ==
  /\ pc = "main" /\ ei > Len(MainOrder)
  /\ pc' = "done"
  /\ UNCHANGED <<argv, values, QUERIES, exitCode, ei, qi, phase, i, results,
                 inFlight, dbResult, report, stderr, lastOutcome, visited,
                 queriesVisited, warmupDone, measuredDone, connectCalls, issued>>
  /\ UNCHANGED <<adapterVars, harnessVars, md, extVars>>
  /\ UNCHANGED <<measuredOk, passRaised>>

\* main 320-322 with --report; a failing write escapes to main().catch (394-397).
\* The clock was read at 302; nothing uses the reading before this point, so
\* it is drawn here.
GenerateReport ==
  /\ pc = "main" /\ ei > Len(MainOrder)
  /\ \E d \in ClockReadings, failsAt \in Range(IoSteps) \cup {"none"} :
       LET rep == [timestamp |-> toISOString(d), databases |-> report.databases]
           out == generateReport(rep, failsAt)
       IN /\ now' = d
          /\ report' = rep
          /\ files' = files \o out.written
          /\ IF out.returned
             THEN /\ md' = generateMarkdown(rep)
                  /\ pc' = "done"
                  /\ UNCHANGED <<stderr, exitCode>>
             ELSE /\ stderr' = Append(stderr, ErrorLine("fatal", "write failed"))
                  /\ exitCode' = 1
                  /\ pc' = "exited"
                  /\ md' = md
  /\ UNCHANGED <<argv, values, QUERIES, ei, qi, phase, i, results,
                 inFlight, dbResult, lastOutcome, visited,
                 queriesVisited, warmupDone, measuredDone, connectCalls, issued>>
  /\ UNCHANGED <<adapterVars, harnessVars, statsVars, formatVars, laterVars>>
  /\ UNCHANGED <<measuredOk, passRaised>>

Next ==
  \/ FilterNotFound \/ EnterMain \/ SkipEngine \/ BeginPass \/ Connect
  \/ NextQuery \/ RunBenchmarkNoSql \/ RunBenchmarkStart \/ LoopIssue
  \/ LoopComplete \/ LoopExit \/ EvalSkipped \/ EvalErrors \/ EvalStats
  \/ Disconnect \/ Return \/ Done \/ GenerateReport

Spec == Init /\ [][Next]_vars

----------------------------------------------------------------------------
(* Properties of the benchmark CLI (specification Spec) *)

IsPrefix(a, b) == Len(a) <= Len(b) /\ \A k \in 1..Len(a) : a[k] = b[k]

\* A query has been evaluated and no later query of the pass has started.
Evaluated == lastOutcome.kind # "none" /\ lastOutcome.index = Len(queriesVisited)
EvaluatedHasSql == queriesToRun[lastOutcome.index].sql[lastOutcome.database]
\* The query just evaluated has a row in the engine's result list.
HasRow == \E k \in 1..Len(dbResult.results) :
            dbResult.results[k].query = lastOutcome.query
MoreQueries == lastOutcome.index < Len(queriesToRun)
MeasuredFailed == measuredDone - Len(measuredOk)

\* st is min/avg/p95/max of the non-empty sequence ds.
IsStatsOf(st, ds) ==
  /\ st.min \in Range(ds) /\ \A d \in Range(ds) : st.min <= d
  /\ st.max \in Range(ds) /\ \A d \in Range(ds) : d <= st.max
  /\ st.avg.num * Len(ds) = SumSeq(ds) * st.avg.den
  /\ st.p95 \in Range(ds)

\* C1: when every measured execution of a query that has SQL for the engine
\* raised, no stats are computed, no result row is added, the printed error
\* count is the configured number of runs, and the pass goes on to the next query.
C1_AllRunsFailed ==
  (Evaluated /\ EvaluatedHasSql /\ BENCHMARK_RUNS >= 1 /\ Len(measuredOk) = 0)
    => /\ lastOutcome.kind = "errors"
       /\ lastOutcome.stats = <<>>
       /\ ~HasRow
       /\ lastOutcome.errorsPrinted = BENCHMARK_RUNS
       /\ pc = "query" => exitCode = 0
       /\ MoreQueries => (pc = "query" /\ qi = lastOutcome.index + 1)

C1_Witness ==
  /\ Evaluated /\ EvaluatedHasSql /\ BENCHMARK_RUNS = 2 /\ Len(measuredOk) = 0
  /\ lastOutcome.kind = "errors" /\ lastOutcome.errorsPrinted = 2
  /\ MoreQueries /\ pc = "query"

\* C2 as stated: whenever at least one measured execution succeeded, also when
\* others errored, stats over the successful durations are computed and a
\* result row is reported.
C2_StatsOverSuccessful ==
  (Evaluated /\ EvaluatedHasSql /\ Len(measuredOk) >= 1)
    => /\ lastOutcome.kind = "results"
       /\ HasRow
       /\ Len(lastOutcome.stats) = 1
       /\ IsStatsOf(lastOutcome.stats[1], measuredOk)

\* C2 amended: stats are computed, over the durations of all measured
\* executions, and a result row is reported exactly when none of the measured
\* executions errored; as soon as one errored the query gets no stats and no row.
C2_StatsOnlyWhenNoneFailed ==
  (Evaluated /\ EvaluatedHasSql /\ BENCHMARK_RUNS >= 1)
    => IF MeasuredFailed = 0
       THEN /\ lastOutcome.kind = "results"
            /\ Len(lastOutcome.stats) = 1
            /\ IsStatsOf(lastOutcome.stats[1], measuredOk)
            /\ Len(measuredOk) = BENCHMARK_RUNS
            /\ dbResult.results[Len(dbResult.results)]
                 = [query |-> lastOutcome.query,
                    minMs |-> lastOutcome.stats[1].min,
                    avgMs |-> lastOutcome.stats[1].avg,
                    p95Ms |-> lastOutcome.stats[1].p95,
                    maxMs |-> lastOutcome.stats[1].max]
       ELSE /\ lastOutcome.kind = "errors"
            /\ lastOutcome.errorsPrinted = MeasuredFailed
            /\ lastOutcome.stats = <<>>
            /\ ~HasRow

C2_Witness ==
  /\ Evaluated /\ EvaluatedHasSql /\ BENCHMARK_RUNS = 2
  /\ Len(measuredOk) = 1 /\ MeasuredFailed = 1
  /\ lastOutcome.kind = "errors" /\ ~HasRow

\* C3: a selected query without SQL text for the engine issues no runQuery
\* call, warmup or measured, adds no result row, raises nothing, and the pass
\* goes on to the next query.
C3_NoSqlSkipped ==
  /\ (pc \in {"rb_enter", "rb_loop", "rb_await", "evaluate"} /\ ~queryDef.sql[runner])
       => (issued = 0 /\ inFlight = 0 /\ pc \in {"rb_enter", "evaluate"})
  /\ (Evaluated /\ ~EvaluatedHasSql)
       => /\ lastOutcome.kind = "skipped"
          /\ issued = 0 /\ warmupDone = 0 /\ measuredDone = 0
          /\ ~HasRow
          /\ pc = "query" => /\ exitCode = 0
                             /\ ErrorLine("engine", lastOutcome.database)
                                  \notin Range(stderr)
          /\ MoreQueries => (pc = "query" /\ qi = lastOutcome.index + 1)

C3_Witness ==
  /\ Evaluated /\ ~EvaluatedHasSql /\ lastOutcome.kind = "skipped"
  /\ WARMUP_RUNS = 1 /\ BENCHMARK_RUNS = 2
  /\ MoreQueries /\ pc = "query"

CatalogNameSet == {QUERIES[k].name : k \in 1..Len(QUERIES)}
ExitedBeforeMain ==
  /\ pc = "exited" /\ exitCode = 1
  /\ \A n \in CatalogNameSet : ErrorLine("available", n) \in Range(stderr)
  /\ connectCalls = 0 /\ issued = 0 /\ visited = <<>>
  /\ client = [a \in EngineSet |-> Null]

\* C4 as stated: -q with any text that is no catalog name lists every catalog
\* name on the error output and exits non-zero before any connect or query.
C4_UnknownNameExits ==
  (pc # "start" /\ values.query.given /\ values.query.name \notin CatalogNameSet)
    => ExitedBeforeMain

\* C4 amended: -q with a non-empty name that is no catalog name lists every
\* catalog name on the error output and exits non-zero before any connect or
\* query (an empty -q value is treated as no filter).
C4_UnknownNonEmptyNameExits ==
  (pc # "start" /\ values.query.given /\ values.query.name # ""
     /\ values.query.name \notin CatalogNameSet)
    => ExitedBeforeMain

C4_Witness ==
  /\ pc = "exited" /\ values.query.name = "nonexistent-name"
  /\ Len(stderr) = 1 + Len(CatalogNames) /\ argv # <<>>

\* C5: a query with SQL gets exactly `warmup` executions and then exactly
\* `runs` executions; all warmup executions are complete before the first
\* measured one is issued, only the measured results are evaluated, and a
\* failed execution is recorded without a retry and without ending the loop.
C5_WarmupThenMeasured ==
  /\ (pc \in {"rb_loop", "rb_await", "evaluate"} /\ queryDef.sql[runner])
       => IF phase = "measure"
          THEN warmupDone = WARMUP_RUNS /\ issued >= WARMUP_RUNS
          ELSE measuredDone = 0 /\ issued <= WARMUP_RUNS
  /\ (Evaluated /\ EvaluatedHasSql)
       => /\ warmupDone = WARMUP_RUNS
          /\ measuredDone = BENCHMARK_RUNS
          /\ issued = WARMUP_RUNS + BENCHMARK_RUNS
          /\ lastOutcome.total = BENCHMARK_RUNS
          /\ lastOutcome.errorsPrinted = MeasuredFailed

C5_Witness ==
  /\ Evaluated /\ EvaluatedHasSql
  /\ WARMUP_RUNS = 1 /\ BENCHMARK_RUNS = 2 /\ issued = 3
  /\ MeasuredFailed = 1 /\ measuredDone = 2

SelectedByFlags(e) == argv = <<>> \/ e \in Range(argv)
ExpectedEngines ==
  SelectSeq(<<"postgres", "clickhouse", "trino">>, SelectedByFlags)
ExpectedQueries ==
  IF values.query.given /\ values.query.name # ""
  THEN SelectSeq(CatalogNames, LAMBDA n : n = values.query.name)
  ELSE CatalogNames

\* C6: exactly the selected engines are visited (all three without an engine
\* flag), in the order postgres, clickhouse, trino whatever the order of the
\* flags, and within an engine the selected queries in catalog order.
C6_VisitOrder ==
  /\ IsPrefix(visited, ExpectedEngines)
  /\ pc = "done" => visited = ExpectedEngines
  /\ IsPrefix(queriesVisited, ExpectedQueries)
  /\ (pc = "return" /\ <<runner, "connect">> \notin passRaised)
       => queriesVisited = ExpectedQueries

C6_Witness ==
  /\ pc = "done" /\ argv = <<"trino", "postgres">>
  /\ visited = <<"postgres", "trino">>
  /\ queriesVisited = CatalogNames

FilterUnknown == Truthy(queryFilter) /\ queryFilter.name \notin CatalogNameSet
FatalPrinted == \E k \in 1..Len(stderr) : stderr[k].kind = "fatal"

----------------------------------------------------------------------------
(* Specification SpecAdapter: any sequence of connect / disconnect /        *)
(* runQuery calls, each awaited, on the three adapters.                    *)

IdleCli ==
  /\ argv = <<>>
  /\ values = parseArgs(<<>>, 0, 0, [given |-> FALSE, name |-> ""])
  /\ QUERIES = Catalog({})
  /\ exitCode = 0
  /\ ei = 1 /\ qi = 1 /\ phase = "warmup" /\ i = 0
  /\ results = <<>>
  /\ inFlight = 0
  /\ dbResult = [database |-> "", results |-> <<>>]
  /\ stderr = <<>>
  /\ lastOutcome = NoOutcome
  /\ visited = <<>> /\ queriesVisited = <<>>
  /\ warmupDone = 0 /\ measuredDone = 0
  /\ connectCalls = 0 /\ issued = 0
  /\ measuredOk = <<>> /\ passRaised = {}

InitAdapter ==
  /\ IdleCli
  /\ pc = "harness"
  /\ report = [databases |-> <<>>]
  /\ InitAdapters
  /\ IdleHarness
  /\ md = NoMarkdown
  /\ IdleFiles
  /\ IdleStats
  /\ IdleFormat
  /\ IdleLater

Call(a, op, raised, sentToEngine, closed, fieldAfter) ==
  [adapter |-> a, op |-> op, liveBefore |-> live[a], raised |-> raised,
   sent |-> sentToEngine, closed |-> closed, fieldAfter |-> fieldAfter]

HarnessConnect ==
  /\ pc = "harness" /\ ncalls < MaxCalls
  /\ \E a \in EngineSet, libThrows \in BOOLEAN :
       LET r == connect(a, client[a], libThrows, nextClient + 1) IN
       /\ client' = [client EXCEPT ![a] = r.field]
       /\ nextClient' = IF libThrows THEN nextClient ELSE nextClient + 1
       /\ live' = [live EXCEPT ![a] = IF libThrows THEN @ ELSE TRUE]
       /\ last' = Call(a, "connect", r.raised, FALSE, <<>>, r.field)
  /\ ncalls' = ncalls + 1
  /\ UNCHANGED <<cliVars, ended, sent, md, extVars>>

\* A disconnect completes unless the client's end()/close() rejects.
HarnessDisconnect ==
  /\ pc = "harness" /\ ncalls < MaxCalls
  /\ \E a \in EngineSet, closeRejects \in BOOLEAN :
       LET r == disconnect(a, client[a], closeRejects) IN
       /\ client' = [client EXCEPT ![a] = r.field]
       /\ ended' = ended \o r.closed
       /\ live' = [live EXCEPT ![a] = @ /\ closeRejects /\ a # "trino"]
       /\ last' = Call(a, "disconnect", r.raised, FALSE, r.closed, r.field)
  /\ ncalls' = ncalls + 1
  /\ UNCHANGED <<cliVars, nextClient, sent, md, extVars>>

HarnessRunQuery ==
  /\ pc = "harness" /\ ncalls < MaxCalls
  /\ \E a \in EngineSet, outcome \in EngineOutcomes :
       LET r == runQuery(a, client[a], outcome) IN
       /\ sent' = [sent EXCEPT ![a] = IF r.sent THEN @ + 1 ELSE @]
       /\ last' = Call(a, "runQuery", r.raised, r.sent, <<>>, client[a])
  /\ ncalls' = ncalls + 1
  /\ UNCHANGED <<cliVars, client, nextClient, ended, live, md, extVars>>

NextAdapter == HarnessConnect \/ HarnessDisconnect \/ HarnessRunQuery

SpecAdapter == InitAdapter /\ [][NextAdapter]_vars

----------------------------------------------------------------------------
(* Specification SpecReport: generateMarkdown on an arbitrary report.       *)

\* Average durations of the sample rows: 1.5 ms, 1.5 s and 65 s.
SampleStats ==
  {calculateStats(<<1, 2>>), calculateStats(<<1500>>), calculateStats(<<65000>>)}
SampleRows ==
  {QueryResult(n, st) : n \in Range(CatalogNames), st \in SampleStats}
\* benchmarkDatabase pushes at most one row per query.
SampleResults ==
  {rs \in SeqsUpTo(SampleRows, MaxRows) :
     \A j, k \in 1..Len(rs) : j # k => rs[j].query # rs[k].query}

\* Any such result lists; the engines are named in main's order.
SampleReports ==
  {[databases |-> [d \in 1..Len(ls) |->
                     [database |-> MainOrder[d], results |-> ls[d]]]] :
     ls \in SeqsUpTo(SampleResults, MaxDbs)}

InitReport ==
  /\ IdleCli
  /\ pc = "render"
  /\ report \in SampleReports
  /\ InitAdapters
  /\ IdleHarness
  /\ md = NoMarkdown
  /\ IdleFiles
  /\ IdleStats
  /\ IdleFormat
  /\ IdleLater

Render ==
  /\ pc = "render"
  /\ md' = generateMarkdown(report)
  /\ pc' = "rendered"
  /\ UNCHANGED <<argv, values, QUERIES, exitCode, ei, qi, phase, i, results,
                 inFlight, dbResult, report, stderr, lastOutcome, visited,
                 queriesVisited, warmupDone, measuredDone, connectCalls, issued,
                 measuredOk, passRaised>>
  /\ UNCHANGED <<adapterVars, harnessVars, extVars>>

NextReport == Render

SpecReport == InitReport /\ [][NextReport]_vars

RowsFor(db, query) ==
  {db.results[k] : k \in {j \in 1..Len(db.results) : db.results[j].query = query}}

\* C10: the summary table has one row per entry of the first engine's result
\* list, in that order, and one cell per engine, in report order; a cell is the
\* formatted average of that engine's result for the query, or "-" when the
\* engine has none; rendering does not fail, also for a report without engines.
C10_SummaryTable ==
  pc = "rendered" =>
    /\ ~md.failed
    /\ Len(md.header) = Len(report.databases)
    /\ \A d \in 1..Len(report.databases) : md.header[d] = report.databases[d].database
    /\ Len(md.rows) = IF report.databases = <<>> THEN 0
                      ELSE Len(report.databases[1].results)
    /\ \A k \in 1..Len(md.rows) :
         /\ md.rows[k].query = report.databases[1].results[k].query
         /\ Len(md.rows[k].cells) = Len(report.databases)
         /\ \A d \in 1..Len(report.databases) :
              LET rs == RowsFor(report.databases[d], md.rows[k].query) IN
              IF rs = {} THEN md.rows[k].cells[d] = "-"
              ELSE md.rows[k].cells[d] \in {formatDuration(r.avgMs) : r \in rs}

C10_Witness ==
  /\ pc = "rendered" /\ Len(report.databases) = 2 /\ Len(md.rows) = 2
  /\ md.rows[1].cells = <<"2ms", "-">>
  /\ md.rows[2].cells = <<"1m 5s", "1m 5s">>

----------------------------------------------------------------------------
(* Specification SpecToken: generateReport at an arbitrary clock reading.   *)

SampleDates ==
  {Date(y, mo, d, h, mi, sec, ms) :
     y \in {1970, 2026, 9999}, mo \in {1, 12}, d \in {1, 28}, h \in {0, 23},
     mi \in {0, 59}, sec \in {0, 59}, ms \in {0, 7, 999}}

\* Engine results of a report: no row, or one row.
TokenDatabases ==
  {<<[database |-> "postgres", results |-> <<>>]>>,
   <<[database |-> "postgres",
      results |-> <<QueryResult("full-count", calculateStats(<<1500>>))>>]>>}

InitToken ==
  /\ IdleCli
  /\ pc = "report"
  /\ now \in SampleDates
  /\ \E dbs \in TokenDatabases :
       report = [timestamp |-> toISOString(now), databases |-> dbs]
  /\ files = <<>>
  /\ InitAdapters
  /\ IdleHarness
  /\ md = NoMarkdown
  /\ IdleStats
  /\ IdleFormat
  /\ IdleLater

WriteReport ==
  /\ pc = "report"
  /\ \E failsAt \in Range(IoSteps) \cup {"none"} :
       LET out == generateReport(report, failsAt) IN
       /\ files' = files \o out.written
       /\ md' = IF out.returned THEN generateMarkdown(report) ELSE md
       /\ pc' = IF out.returned THEN "written" ELSE "failed"
  /\ UNCHANGED <<argv, values, QUERIES, exitCode, ei, qi, phase, i, results,
                 inFlight, dbResult, report, stderr, lastOutcome, visited,
                 queriesVisited, warmupDone, measuredDone, connectCalls, issued,
                 measuredOk, passRaised>>
  /\ UNCHANGED <<adapterVars, harnessVars, now, statsVars, formatVars, laterVars>>

NextToken == WriteReport

SpecToken == InitToken /\ [][NextToken]_vars

\* The token inside a report file's path: what stands between "benchmark-"
\* and the extension.
TokenOf(file) == SubSeq(file.path, 4, Len(file.path) - 2)

\* "YYYY-MM-DDTHH-MM-SS" of a clock reading: its date and whole seconds.
DateAndSeconds(d) ==
  DigitsOf(d.year, 4) \o <<"-">> \o DigitsOf(d.month, 2) \o <<"-">>
    \o DigitsOf(d.day, 2) \o <<"T">> \o DigitsOf(d.hours, 2) \o <<"-">>
    \o DigitsOf(d.minutes, 2) \o <<"-">> \o DigitsOf(d.seconds, 2)

First19(str) == [k \in 1..(IF Len(str) < 19 THEN Len(str) ELSE 19) |-> str[k]]

\* C11 as stated: the token of every written file is the first 19 characters
\* of the timestamp with ':' and '.' removed, it carries the date and the whole
\* seconds only, and the JSON and Markdown files share it.
C11_TokenStripped ==
  \A k \in 1..Len(files) :
    /\ TokenOf(files[k]) =
         First19(SelectSeq(report.timestamp, LAMBDA c : c \notin {":", "."}))
    /\ TokenOf(files[k]) = DateAndSeconds(now)
    /\ TokenOf(files[k]) = TokenOf(files[1])

\* C11 (amended): the token of every written file is the first 19 characters
\* of the timestamp with every ':' and '.' replaced by '-'; it is the date and
\* the whole seconds of the clock reading and nothing else; a completed
\* generateReport has written benchmark-<token>.json and benchmark-<token>.md
\* with one token.
C11_TokenReplaced ==
  /\ \A k \in 1..Len(files) :
       /\ TokenOf(files[k]) =
            First19([j \in 1..Len(report.timestamp) |->
                       IF report.timestamp[j] \in {":", "."} THEN "-"
                       ELSE report.timestamp[j]])
       /\ TokenOf(files[k]) = DateAndSeconds(now)
       /\ SubSeq(files[k].path, 1, 3) = <<"reports", "/", "benchmark-">>
  /\ pc = "written" =>
       /\ Len(files) = 2
       /\ TokenOf(files[1]) = TokenOf(files[2])
       /\ SubSeq(files[1].path, Len(files[1].path) - 1, Len(files[1].path))
            = <<".", "json">>
       /\ SubSeq(files[2].path, Len(files[2].path) - 1, Len(files[2].path))
            = <<".", "md">>

C11_Witness ==
  /\ pc = "written" /\ Len(files) = 2
  /\ now = Date(2026, 12, 28, 23, 59, 59, 999)
  /\ TokenOf(files[2]) =
       <<"2", "0", "2", "6", "-", "1", "2", "-", "2", "8", "T",
         "2", "3", "-", "5", "9", "-", "5", "9">>

----------------------------------------------------------------------------
(* Specification SpecStats: calculateStats on an arbitrary array.           *)

\* Arrays of 20, 21 and 40 values: ascending runs and scattered ones.
LongArrays ==
  {[k \in 1..n |-> (k * step) % m] :
     n \in {20, 21, 40}, step \in {1, 7}, m \in {5, 23}}

ExampleArrays ==
  {<<100, 200, 300, 400, 500>>, <<500, 100, 400, 200, 300>>}

SampleArrays ==
  SeqsUpTo(0..MaxValue, MaxLen) \cup LongArrays \cup ExampleArrays

InitStats ==
  /\ IdleCli
  /\ pc = "call"
  /\ report = [databases |-> <<>>]
  /\ InitAdapters
  /\ IdleHarness
  /\ md = NoMarkdown
  /\ IdleFiles
  /\ IdleFormat
  /\ IdleLater
  /\ array \in SampleArrays
  /\ passed = <<>>
  /\ returned = NoStats

\* const stats = calculateStats(durations)
CallCalculateStats ==
  /\ pc = "call"
  /\ passed' = array
  /\ returned' = calculateStats(array)
  /\ array' = calculateStats_values(array)
  /\ pc' = "returned"
  /\ UNCHANGED <<argv, values, QUERIES, exitCode, ei, qi, phase, i, results,
                 inFlight, dbResult, report, stderr, lastOutcome, visited,
                 queriesVisited, warmupDone, measuredDone, connectCalls, issued,
                 measuredOk, passRaised>>
  /\ UNCHANGED <<adapterVars, harnessVars, md, fileVars, formatVars, laterVars>>

NextStats == CallCalculateStats

SpecStats == InitStats /\ [][NextStats]_vars

\* C12: for a non-empty array min <= median <= max and min <= p95 <= max, and
\* min, median, p95 and max are elements of the array; for the empty array
\* the call returns (does not throw) with all five fields 0.
C12_StatsBounds ==
  pc = "returned" =>
    IF passed = <<>>
    THEN returned = [min |-> 0, max |-> 0, avg |-> [num |-> 0, den |-> 1],
                     median |-> 0, p95 |-> 0]
    ELSE /\ returned.min <= returned.median /\ returned.median <= returned.max
         /\ returned.min <= returned.p95 /\ returned.p95 <= returned.max
         /\ {returned.min, returned.median, returned.p95, returned.max}
              \subseteq Range(passed)

C12_Witness ==
  /\ pc = "returned" /\ Len(passed) = 21
  /\ returned.min < returned.median /\ returned.median < returned.p95
  /\ returned.p95 < returned.max

\* The element at 0-based index j of the ascending arrangement of s, read off
\* the counts of smaller and of not larger elements.
ElementAtRank(s, j) ==
  CHOOSE v \in Range(s) :
    /\ Cardinality({k \in 1..Len(s) : s[k] < v}) <= j
    /\ j < Cardinality({k \in 1..Len(s) : s[k] <= v})

\* C13: for a non-empty array of length n the result is min = element 0,
\* max = element n-1, median = element floor(n/2), p95 = element
\* floor(n*0.95) of the ascending arrangement (both indices within 0..n-1)
\* and avg = sum/n; so it depends on the values only, not on their order;
\* [100,200,300,400,500] gives 100, 500, 300, 300, 500; the caller's array is
\* left as it was.
C13_StatsReference ==
  pc = "returned" /\ passed # <<>> =>
    LET n == Len(passed)
        medianIndex == n \div 2
        p95Index == (n * 95) \div 100
    IN /\ medianIndex \in 0..(n - 1) /\ p95Index \in 0..(n - 1)
       /\ returned.min = ElementAtRank(passed, 0)
       /\ returned.max = ElementAtRank(passed, n - 1)
       /\ returned.median = ElementAtRank(passed, medianIndex)
       /\ returned.p95 = ElementAtRank(passed, p95Index)
       /\ returned.avg.num * n = SumSeq(passed) * returned.avg.den
       /\ returned.avg.den > 0
       /\ array = passed
       /\ Range(passed) = {100, 200, 300, 400, 500} /\ n = 5 =>
            returned = [min |-> 100, max |-> 500, avg |-> [num |-> 300, den |-> 1],
                        median |-> 300, p95 |-> 500]

C13_Witness ==
  /\ pc = "returned" /\ passed = <<500, 100, 400, 200, 300>>
  /\ array = <<500, 100, 400, 200, 300>>
  /\ returned.median = 300 /\ returned.p95 = 500

----------------------------------------------------------------------------
(* Specification SpecFormat: formatDuration on an arbitrary whole number of *)
(* milliseconds.                                                           *)

SampleMs ==
  {h * 3600000 + m * 60000 + sec * 1000 + r :
     h \in 0..MaxHours, m \in {0, 1, 2, 59}, sec \in {0, 1, 5, 59},
     r \in {0, 1, 5, 125, 500, 995, 999}}

InitFormat ==
  /\ IdleCli
  /\ pc = "call"
  /\ report = [databases |-> <<>>]
  /\ InitAdapters
  /\ IdleHarness
  /\ md = NoMarkdown
  /\ IdleFiles
  /\ IdleStats
  /\ IdleLater
  /\ msArg \in SampleMs
  /\ formatted = ""

CallFormatDuration ==
  /\ pc = "call"
  /\ formatted' = formatDuration(Num(msArg))
  /\ pc' = "returned"
  /\ UNCHANGED <<argv, values, QUERIES, exitCode, ei, qi, phase, i, results,
                 inFlight, dbResult, report, stderr, lastOutcome, visited,
                 queriesVisited, warmupDone, measuredDone, connectCalls, issued,
                 measuredOk, passRaised>>
  /\ UNCHANGED <<adapterVars, harnessVars, md, fileVars, statsVars, msArg,
                 laterVars>>

NextFormat == CallFormatDuration

SpecFormat == InitFormat /\ [][NextFormat]_vars

TwoDigits(n) == ToString(n \div 10) \o ToString(n % 10)

\* C14: for a whole number ms >= 0 the result has exactly the form its range
\* selects: below 1000 "<ms>ms"; below 60000 a number of seconds with two
\* decimals, within 0.005 of ms/1000, and "s"; below 3600000 "Xm Ys" with
\* X = floor(ms/60000), Y = floor((ms mod 60000)/1000); otherwise "Xh Ym Zs"
\* with X = floor(ms/3600000), Y = floor((ms mod 3600000)/60000),
\* Z = floor((ms mod 60000)/1000); minutes and seconds of the last two forms
\* are in 0..59; 500, 1500, 65000 and 3725000 give "500ms", "1.50s", "1m 5s"
\* and "1h 2m 5s".
C14_FormatByThreshold ==
  pc = "returned" =>
    /\ IF msArg < 1000 THEN formatted = ToString(msArg) \o "ms"
       ELSE IF msArg < 60000 THEN
         \E n \in ((msArg - 5) \div 10)..((msArg + 5) \div 10) :
           /\ 10 * n - msArg \in -5..5
           /\ formatted = ToString(n \div 100) \o "." \o TwoDigits(n % 100) \o "s"
       ELSE IF msArg < 3600000 THEN
         LET X == msArg \div 60000
             Y == (msArg % 60000) \div 1000
         IN /\ Y \in 0..59
            /\ formatted = ToString(X) \o "m " \o ToString(Y) \o "s"
       ELSE
         LET X == msArg \div 3600000
             Y == (msArg % 3600000) \div 60000
             Z == (msArg % 60000) \div 1000
         IN /\ Y \in 0..59 /\ Z \in 0..59
            /\ formatted = ToString(X) \o "h " \o ToString(Y) \o "m "
                             \o ToString(Z) \o "s"
    /\ msArg = 500 => formatted = "500ms"
    /\ msArg = 1500 => formatted = "1.50s"
    /\ msArg = 65000 => formatted = "1m 5s"
    /\ msArg = 3725000 => formatted = "1h 2m 5s"

C14_Witness ==
  pc = "returned" /\ msArg = 3659999 /\ formatted = "1h 0m 59s"

----------------------------------------------------------------------------
(* Specification SpecGenerate: one run of the data-generation CLI.          *)

\* Command lines whose table loads take at most MaxBatches batches.
GenCommandLines ==
  {cl \in [rows : RowArgs, batch : BatchArgs] :
     LET batchSize == IF cl.batch.given /\ cl.batch.text # <<>>
                      THEN parseNumber(cl.batch.text) ELSE DefaultBatchSize
     IN /\ NumBatches(parseNumber(cl.rows), batchSize) <= MaxBatches
        /\ NumBatches(CATEGORY_COUNT, batchSize) <= MaxBatches}

InitGenerate ==
  /\ IdleCli
  /\ pc = "start"
  /\ report = [databases |-> <<>>]
  /\ InitAdapters
  /\ IdleHarness
  /\ md = NoMarkdown
  /\ IdleFiles
  /\ IdleStats
  /\ IdleFormat
  /\ IdleOptimizer
  /\ IdleKey
  /\ IdleMain
  /\ IdleOps
  /\ variant \in GenVariants
  /\ \E flags \in SUBSET EngineSet, cl \in GenCommandLines, help \in BOOLEAN :
       genValues = genParseArgs(flags, cl.rows, cl.batch, help)
  /\ di = 1 /\ si = 1
  /\ generator = [db \in Range(DATABASES) |-> "none"]
  /\ tables = [db \in Range(DATABASES) |-> [t \in TableNames |-> EmptyTable]]
  /\ loadOrder = [db \in Range(DATABASES) |-> <<>>]
  /\ thrown = FALSE
  /\ attempted = <<>>

genFrame ==
  UNCHANGED <<argv, values, QUERIES, ei, qi, phase, i, results,
              inFlight, dbResult, report, lastOutcome, visited,
              queriesVisited, warmupDone, measuredDone, connectCalls, issued,
              measuredOk, passRaised, adapterVars, harnessVars, md, fileVars,
              statsVars, formatVars, variant, genValues, optVars, keyVars,
              mainVars, opsVars>>

db == dbsToRun[di]

\* if (values.help) { ...; process.exit(0); }
GenHelp ==
  /\ pc = "start" /\ genValues.help
  /\ pc' = "exited"
  /\ UNCHANGED <<exitCode, stderr, di, si, generator, tables, loadOrder, thrown,
                 attempted>>
  /\ genFrame

\* main: dbsToRun is computed, the loop starts.
GenMain ==
  /\ pc = "start" /\ ~genValues.help
  /\ pc' = "loop"
  /\ UNCHANGED <<exitCode, stderr, di, si, generator, tables, loadOrder, thrown,
                 attempted>>
  /\ genFrame

\* generateForDatabase: the banner and createGenerator.
GenBegin ==
  /\ pc = "loop" /\ di <= Len(dbsToRun)
  /\ attempted' = Append(attempted, db)
  /\ generator' = [generator EXCEPT ![db] = "created"]
  /\ pc' = "connect"
  /\ UNCHANGED <<exitCode, stderr, di, si, tables, loadOrder, thrown>>
  /\ genFrame

\* await generator.connect()
GenConnect ==
  /\ pc = "connect"
  /\ \E libThrows \in BOOLEAN :
       IF libThrows
       THEN /\ thrown' = TRUE /\ pc' = "finally"
            /\ UNCHANGED <<generator, si>>
       ELSE /\ generator' = [generator EXCEPT ![db] = "connected"]
            /\ si' = 1 /\ pc' = "step"
            /\ UNCHANGED thrown
  /\ UNCHANGED <<exitCode, stderr, di, tables, loadOrder, attempted>>
  /\ genFrame

\* The next table load starts: with dropFirst the table is dropped and
\* created again.
GenStepStart ==
  /\ pc = "step" /\ si <= Len(Steps)
  /\ loadOrder' = [loadOrder EXCEPT ![db] = Append(@, Steps[si].table)]
  /\ \E libThrows \in BOOLEAN :
       IF libThrows
       THEN /\ thrown' = TRUE /\ pc' = "finally" /\ UNCHANGED tables
       ELSE /\ tables' = [tables EXCEPT ![db][Steps[si].table] = EmptyTable]
            /\ pc' = "batch" /\ UNCHANGED thrown
  /\ UNCHANGED <<exitCode, stderr, di, si, generator, attempted>>
  /\ genFrame

\* One batch of the current table load is inserted.
GenBatch ==
  /\ pc = "batch"
  /\ LET step == Steps[si]
         remaining == step.rowCount - tables[db][step.table].rows
     IN /\ remaining > 0
        /\ \E libThrows \in BOOLEAN :
             IF libThrows
             THEN /\ thrown' = TRUE /\ pc' = "finally" /\ UNCHANGED tables
             ELSE /\ tables' = [tables EXCEPT ![db][step.table] =
                                  [rows |-> @.rows + BatchRows(remaining, step.batchSize),
                                   batches |-> @.batches + 1]]
                  /\ UNCHANGED <<thrown, pc>>
  /\ UNCHANGED <<exitCode, stderr, di, si, generator, loadOrder, attempted>>
  /\ genFrame

\* The current table load is complete.
GenStepDone ==
  /\ pc = "batch"
  /\ tables[db][Steps[si].table].rows = Steps[si].rowCount
  /\ si' = si + 1
  /\ pc' = "step"
  /\ UNCHANGED <<exitCode, stderr, di, generator, tables, loadOrder, thrown,
                 attempted>>
  /\ genFrame

\* All loads returned: the totals are printed and the try block is left.
GenLoaded ==
  /\ pc = "step" /\ si > Len(Steps)
  /\ pc' = "finally"
  /\ UNCHANGED <<exitCode, stderr, di, si, generator, tables, loadOrder, thrown,
                 attempted>>
  /\ genFrame

\* Mutant: an engine's failure is swallowed and the loop goes on.
GenDisconnect_Swallow ==
  /\ pc = "finally"
  /\ \E libThrows \in BOOLEAN :
       /\ generator' = IF libThrows THEN generator
                       ELSE [generator EXCEPT ![db] = "closed"]
       /\ thrown' = FALSE
       /\ di' = di + 1 /\ pc' = "loop"
  /\ UNCHANGED <<exitCode, stderr, si, tables, loadOrder, attempted>>
  /\ genFrame

\* finally { await generator.disconnect(); }; an exception then leaves
\* generateForDatabase and main, otherwise the loop goes on.
GenDisconnect ==
  /\ pc = "finally"
  /\ \E libThrows \in BOOLEAN :
       /\ generator' = IF libThrows THEN generator
                       ELSE [generator EXCEPT ![db] = "closed"]
       /\ thrown' = (thrown \/ libThrows)
       /\ IF thrown \/ libThrows
          THEN pc' = "catch" /\ di' = di
          ELSE pc' = "loop" /\ di' = di + 1
  /\ UNCHANGED <<exitCode, stderr, si, tables, loadOrder, attempted>>
  /\ genFrame

\* main().catch: console.error("Error:", err); process.exit(1)
GenFatal ==
  /\ pc = "catch"
  /\ stderr' = Append(stderr, ErrorLine("fatal", "Error:"))
  /\ exitCode' = 1
  /\ pc' = "exited"
  /\ UNCHANGED <<di, si, generator, tables, loadOrder, thrown, attempted>>
  /\ genFrame

\* console.log("\nDone!")
GenDone ==
  /\ pc = "loop" /\ di > Len(dbsToRun)
  /\ pc' = "done"
  /\ UNCHANGED <<exitCode, stderr, di, si, generator, tables, loadOrder, thrown,
                 attempted>>
  /\ genFrame

NextGenerate ==
  \/ GenHelp \/ GenMain \/ GenBegin \/ GenConnect \/ GenStepStart \/ GenBatch
  \/ GenStepDone \/ GenLoaded \/ GenDisconnect \/ GenFatal \/ GenDone

SpecGenerate == InitGenerate /\ [][NextGenerate]_vars

\* The engines the flags select, in the order PostgreSQL, ClickHouse,
\* Trino/Iceberg.
GenSelected ==
  LET flagged == {e \in Range(DATABASES) :
                    \/ e = "PostgreSQL" /\ genValues.postgres
                    \/ e = "ClickHouse" /\ genValues.clickhouse
                    \/ e = "Trino/Iceberg" /\ genValues.trino}
      chosen == IF flagged = {} THEN Range(DATABASES) ELSE flagged
  IN SelectSeq(<<"PostgreSQL", "ClickHouse", "Trino/Iceberg">>,
               LAMBDA e : e \in chosen)

\* C15: in the revisions that load categories, an engine's loads start in the
\* order categories, samples, and samples does not start before categories
\* holds all its 10,000 rows; the engines are taken one after another in the
\* order PostgreSQL, ClickHouse, Trino/Iceberg: an engine's generator exists
\* only when every engine before it has been disconnected, and at most one
\* generator is connected.
C15_CategoriesFirstSequential ==
  /\ variant # "generate1" =>
       \A e \in Range(DATABASES) :
         /\ IsPrefix(loadOrder[e], <<"categories", "samples">>)
         /\ "samples" \in Range(loadOrder[e]) =>
              tables[e]["categories"].rows = 10000
         /\ tables[e]["samples"].rows > 0 => tables[e]["categories"].rows = 10000
  /\ IsPrefix(attempted, GenSelected)
  /\ \A k \in 1..Len(attempted) :
       \A j \in 1..(k - 1) : generator[attempted[j]] = "closed"
  /\ \A e \in Range(DATABASES) :
       generator[e] # "none" => e \in Range(attempted)
  /\ Cardinality({e \in Range(DATABASES) : generator[e] = "connected"}) <= 1

C15_Witness ==
  /\ variant = "runScenario" /\ pc = "batch"
  /\ attempted = <<"PostgreSQL", "ClickHouse", "Trino/Iceberg">>
  /\ generator["ClickHouse"] = "closed"
  /\ generator["Trino/Iceberg"] = "connected"
  /\ loadOrder["Trino/Iceberg"] = <<"categories", "samples">>
  /\ tables["Trino/Iceberg"]["categories"] = [rows |-> 10000, batches |-> 2]
  /\ tables["Trino/Iceberg"]["samples"].rows = 5000

GenFullyLoaded(e) ==
  \A k \in 1..Len(Steps) : tables[e][Steps[k].table].rows = Steps[k].rowCount

\* C16 as stated: whichever engine fails, every selected engine's generation
\* has been attempted when the run ends.
C16_FailureDoesNotBlock ==
  pc \in {"done", "exited"} /\ ~genValues.help => attempted = GenSelected

\* C16 (amended): a failure while generating for one engine is not caught per
\* engine: after that engine's disconnect call it reaches the top-level
\* handler, which prints it and exits with code 1, and no later engine is
\* attempted; the run ends with "Done!" and exit code 0 only when every
\* selected engine was attempted, fully loaded and disconnected.
C16_FailureEndsRun ==
  /\ thrown => pc \in {"finally", "catch", "exited"}
  /\ pc = "exited" /\ ~genValues.help =>
       /\ thrown /\ exitCode = 1
       /\ stderr = <<ErrorLine("fatal", "Error:")>>
       /\ attempted = SubSeq(GenSelected, 1, di)
       /\ \A k \in (di + 1)..Len(GenSelected) :
            /\ generator[GenSelected[k]] = "none"
            /\ loadOrder[GenSelected[k]] = <<>>
  /\ pc = "done" =>
       /\ ~thrown /\ exitCode = 0 /\ stderr = <<>>
       /\ attempted = GenSelected
       /\ \A e \in Range(GenSelected) :
            generator[e] = "closed" /\ GenFullyLoaded(e)

C16_Witness ==
  /\ pc = "exited" /\ exitCode = 1 /\ variant = "runScenario"
  /\ GenSelected = <<"PostgreSQL", "ClickHouse", "Trino/Iceberg">>
  /\ attempted = <<"PostgreSQL", "ClickHouse">>
  /\ generator = [e \in Range(DATABASES) |->
                    IF e = "Trino/Iceberg" THEN "none" ELSE "closed"]
  /\ tables["ClickHouse"]["categories"].rows = 10000
  /\ tables["ClickHouse"]["samples"].rows = 0

\* C17: whatever -n and -b are, the categories load of an engine never uses
\* more than one batch, and its batch holds exactly 10,000 rows.
C17_CategoriesSingleBatch ==
  \A e \in Range(DATABASES) :
    /\ tables[e]["categories"].batches <= 1
    /\ tables[e]["categories"].batches = 1 =>
         tables[e]["categories"].rows = 10000

----------------------------------------------------------------------------
(* Specification SpecLookup: find_cached_result on an arbitrary cache.      *)

Reverse(seq) == [k \in 1..Len(seq) |-> seq[Len(seq) + 1 - k]]

\* Records of every shape for one (infra, config): with a top-level
\* throughput (positive, zero, negative), with an error, as save_result
\* writes them, and with the dicts in another insertion order.
RecordsFor(infra, config) ==
  {CacheRecord(0, infra, config, NoError, Present(100), Absent),
   CacheRecord(0, infra, config, NoError, Present(0), Absent),
   CacheRecord(0, infra, config, NoError, Present(-1), Absent),
   CacheRecord(0, infra, config, Error("Service not ready"), Present(100), Absent),
   CacheRecord(0, infra, config, NoError, Absent, Present(100)),
   CacheRecord(1, Reverse(infra), Reverse(config), NoError, Present(50), Absent)}

SampleRecords ==
  UNION {RecordsFor(infra, config) : infra \in SampledInfra, config \in SampledConfig}

IdleBefore ==
  /\ IdleCli
  /\ report = [databases |-> <<>>]
  /\ InitAdapters
  /\ IdleHarness
  /\ md = NoMarkdown
  /\ IdleFiles
  /\ IdleStats
  /\ IdleFormat
  /\ IdleGenerate

\* Every variable of the earlier specifications but pc.
beforeVars == <<argv, values, QUERIES, exitCode, ei, qi, phase, i, results,
                inFlight, dbResult, report, stderr, lastOutcome, visited,
                queriesVisited, warmupDone, measuredDone, connectCalls, issued,
                measuredOk, passRaised, adapterVars, harnessVars, md, fileVars,
                statsVars, formatVars, genVars>>

InitLookup ==
  /\ IdleBefore
  /\ IdleKey
  /\ IdleMain
  /\ IdleOps
  /\ pc = "lookup"
  /\ cacheFile \in SeqsUpTo(SampleRecords, MaxCache)
  /\ sampled \in [infra : SampledInfra, config : SampledConfig]
  /\ trialNumber = 0
  /\ cached = <<>>
  /\ benchResult = NoResult
  /\ ran = {}
  /\ trialOutcome = NoTrialOutcome
  /\ savedKeys = {}
  /\ cacheAtStart = <<>>

Lookup ==
  /\ pc = "lookup"
  /\ cached' = find_cached_result(sampled.infra, sampled.config, cacheFile)
  /\ pc' = "looked"
  /\ UNCHANGED <<beforeVars, keyVars, mainVars, opsVars>>
  /\ UNCHANGED <<cacheFile, trialNumber, sampled, benchResult, ran,
                 trialOutcome, savedKeys, cacheAtStart>>

NextLookup == Lookup

SpecLookup == InitLookup /\ [][NextLookup]_vars

\* Same names with the same values, whatever the insertion order.
SameDict(a, b) == Range(a) = Range(b)

MatchesSample(r) ==
  SameDict(r.infra, sampled.infra) /\ SameDict(r.config, sampled.config)

\* The primary metric a record stores: metrics.throughput, or the top-level
\* throughput of a record without metrics (0 when it has neither).
StoredMetric(r) ==
  IF r.metrics.present THEN r.metrics.value
  ELSE IF r.throughput.present THEN r.throughput.value ELSE 0

FailedRecord(r) == r.error.present \/ StoredMetric(r) <= 0

\* C18: whatever the cache holds, the lookup returns a record of the cache
\* with the looked-up (infra, config), and never one whose error is set or
\* whose stored primary metric is 0 or negative; when every record with the
\* looked-up (infra, config) is such a failed one, it returns None.
C18_NoFailedRecordReturned ==
  pc = "looked" =>
    /\ cached # <<>> =>
         /\ cached[1] \in Range(cacheFile)
         /\ MatchesSample(cached[1])
         /\ ~FailedRecord(cached[1])
    /\ (\A k \in 1..Len(cacheFile) :
          MatchesSample(cacheFile[k]) => FailedRecord(cacheFile[k]))
         => cached = <<>>

C18_Witness ==
  /\ pc = "looked" /\ cached = <<>> /\ Len(cacheFile) = 2
  /\ MatchesSample(cacheFile[1]) /\ cacheFile[1].error.present
  /\ MatchesSample(cacheFile[2]) /\ cacheFile[2].throughput = Present(0)

----------------------------------------------------------------------------
(* Specification SpecOptimizer: the trials of one optimizer run, each a     *)
(* call of objective (198-238) for the throughput metric.                  *)

\* The cache at the start: records written by save_result in earlier runs.
PreloadedRecords ==
  {CacheRecord(0, infra, config, NoError, Absent, Present(100)) :
     infra \in SampledInfra, config \in SampledConfig}

OptCommandLines ==
  {OptArgs(show, destroy, keep, trials, metric) :
     show \in BOOLEAN, destroy \in BOOLEAN, keep \in BOOLEAN,
     trials \in 0..MaxTrials, metric \in Metrics}

InitOptimizer ==
  /\ IdleBefore
  /\ IdleKey
  /\ IdleOps
  /\ pc = "main"
  /\ cacheFile \in SeqsUpTo(PreloadedRecords, MaxPreloaded)
  /\ trialNumber = 0
  /\ sampled = NoSample
  /\ cached = <<>>
  /\ benchResult = NoResult
  /\ ran = {}
  /\ trialOutcome = NoTrialOutcome
  /\ savedKeys = {}
  /\ cacheAtStart = cacheFile
  /\ optArgs \in OptCommandLines
  /\ direction = "none"
  /\ destroyCalls = 0
  /\ escaped = FALSE

optFrame == UNCHANGED <<beforeVars, keyVars, mainVars, opsVars>>
mainFrame == UNCHANGED <<beforeVars, keyVars, optVars, optArgs, opsVars>>

\* if args.show_results: show_results(...); return
ShowResults ==
  /\ pc = "main" /\ optArgs.show_results
  /\ pc' = "returned"
  /\ UNCHANGED <<direction, destroyCalls, escaped>>
  /\ mainFrame

\* if args.destroy: destroy_all(...); return
DestroyAndExit ==
  /\ pc = "main" /\ ~optArgs.show_results /\ optArgs.destroy
  /\ destroyCalls' = destroyCalls + 1
  /\ pc' = "returned"
  /\ UNCHANGED <<direction, escaped>>
  /\ mainFrame

\* direction = "maximize" if args.metric == "throughput" else "minimize"
StudyDirection(metric) ==
  IF metric = "throughput" THEN "maximize" ELSE "minimize"

\* optuna.create_study(..., direction=direction, ...), then try: study.optimize
CreateStudy ==
  /\ pc = "main" /\ ~optArgs.show_results /\ ~optArgs.destroy
  /\ direction' = StudyDirection(optArgs.metric)
  /\ pc' = "idle"
  /\ UNCHANGED <<destroyCalls, escaped>>
  /\ mainFrame

TrialKey == config_to_key(sampled.infra, sampled.config)
Finished(kind, metric) ==
  [kind |-> kind, metric |-> metric, key |-> TrialKey, trial |-> trialNumber - 1]

\* 1. Sample parameters (trial.number is trialNumber - 1 once sampled)
SampleParameters ==
  /\ pc = "idle" /\ trialNumber < optArgs.trials
  /\ trialNumber' = trialNumber + 1
  /\ sampled' \in [infra : SampledInfra, config : SampledConfig]
  /\ cached' = <<>> /\ benchResult' = NoResult /\ ran' = {}
  /\ cacheAtStart' = cacheFile
  /\ pc' = "check"
  /\ UNCHANGED <<cacheFile, trialOutcome, savedKeys>>
  /\ optFrame

\* 2. Check cache first; a hit returns the cached metric.
CheckCache ==
  /\ pc = "check"
  /\ cached' = find_cached_result(sampled.infra, sampled.config, cacheFile)
  /\ IF cached' # <<>>
     THEN /\ trialOutcome' = Finished("cached", get_metric_value_cached(cached'[1]))
          /\ pc' = "idle"
     ELSE /\ pc' = "ensure"
          /\ UNCHANGED trialOutcome
  /\ UNCHANGED <<cacheFile, trialNumber, sampled, benchResult, ran, savedKeys,
                 cacheAtStart>>
  /\ optFrame

\* Mutant: the RuntimeError of ensure_infra is not caught.
EnsureInfra_Uncaught ==
  /\ pc = "ensure"
  /\ ran' = ran \cup {"ensure_infra"}
  /\ \E fails \in BOOLEAN :
       IF fails
       THEN /\ trialOutcome' = Finished("pruned", 0)
            /\ escaped' = TRUE /\ pc' = "finally"
       ELSE pc' = "apply" /\ UNCHANGED <<trialOutcome, escaped>>
  /\ UNCHANGED <<cacheFile, trialNumber, sampled, cached, benchResult, savedKeys,
                 cacheAtStart>>
  /\ UNCHANGED <<beforeVars, keyVars, optArgs, direction, destroyCalls, opsVars>>

\* 3. ensure_infra; a RuntimeError prunes the trial.
EnsureInfra ==
  /\ pc = "ensure"
  /\ ran' = ran \cup {"ensure_infra"}
  /\ \E fails \in BOOLEAN :
       IF fails
       THEN trialOutcome' = Finished("pruned", 0) /\ pc' = "idle"
       ELSE pc' = "apply" /\ UNCHANGED trialOutcome
  /\ UNCHANGED <<cacheFile, trialNumber, sampled, cached, benchResult, savedKeys,
                 cacheAtStart>>
  /\ optFrame

\* run_benchmark 1: apply_config
ApplyServiceConfig ==
  /\ pc = "apply"
  /\ ran' = ran \cup {"apply_config"}
  /\ \E fails \in BOOLEAN :
       IF fails
       THEN /\ benchResult' = BenchmarkResultOf(0, Error("Failed to apply config"))
            /\ pc' = "valid"
       ELSE pc' = "wait" /\ UNCHANGED benchResult
  /\ UNCHANGED <<cacheFile, trialNumber, sampled, cached, trialOutcome, savedKeys,
                 cacheAtStart>>
  /\ optFrame

\* run_benchmark 2: wait_for_service_ready
WaitServiceReady ==
  /\ pc = "wait"
  /\ ran' = ran \cup {"wait_for_service_ready"}
  /\ \E fails \in BOOLEAN :
       IF fails
       THEN /\ benchResult' = BenchmarkResultOf(0, Error("Service not ready"))
            /\ pc' = "valid"
       ELSE pc' = "tool" /\ UNCHANGED benchResult
  /\ UNCHANGED <<cacheFile, trialNumber, sampled, cached, trialOutcome, savedKeys,
                 cacheAtStart>>
  /\ optFrame

\* run_benchmark 3-4: the benchmark tool runs and its output is parsed.
RunExternalBenchmarkTool ==
  /\ pc = "tool"
  /\ ran' = ran \cup {"benchmark_tool"}
  /\ benchResult' \in ParsedResults
  /\ pc' = "valid"
  /\ UNCHANGED <<cacheFile, trialNumber, sampled, cached, trialOutcome, savedKeys,
                 cacheAtStart>>
  /\ optFrame

\* if not result.is_valid(): raise optuna.TrialPruned()
PruneInvalid ==
  /\ pc = "valid" /\ ~is_valid(benchResult)
  /\ trialOutcome' = Finished("pruned", 0)
  /\ pc' = "idle"
  /\ UNCHANGED <<cacheFile, trialNumber, sampled, cached, benchResult, ran,
                 savedKeys, cacheAtStart>>
  /\ optFrame

\* 5. Save and return
PersistResult ==
  /\ pc = "valid" /\ is_valid(benchResult)
  /\ cacheFile' = save_result(cacheFile, sampled.infra, sampled.config,
                              benchResult, trialNumber - 1)
  /\ ran' = ran \cup {"save_result"}
  /\ savedKeys' = savedKeys \cup {TrialKey}
  /\ trialOutcome' = Finished("fresh", get_metric_value_result(benchResult))
  /\ pc' = "idle"
  /\ UNCHANGED <<trialNumber, sampled, cached, benchResult, cacheAtStart>>
  /\ optFrame

\* The stages of a trial in which a call to the outside is awaited.
CallStages == {"ensure", "apply", "wait", "tool"}

\* The operator interrupts the run while a call is awaited: the
\* KeyboardInterrupt is not caught by the objective and leaves study.optimize.
ExceptionEscapes ==
  /\ pc \in CallStages
  /\ escaped' = TRUE
  /\ trialOutcome' = Finished("raised", 0)
  /\ pc' = "finally"
  /\ UNCHANGED <<cacheFile, trialNumber, sampled, cached, benchResult, ran,
                 savedKeys, cacheAtStart>>
  /\ UNCHANGED <<beforeVars, keyVars, optArgs, direction, destroyCalls, opsVars>>

\* study.optimize returns after n_trials trials.
OptimizeReturns ==
  /\ pc = "idle" /\ trialNumber >= optArgs.trials
  /\ pc' = "finally"
  /\ UNCHANGED <<direction, destroyCalls, escaped>>
  /\ mainFrame

\* Mutant: destroy_all after the try block instead of in finally.
FinallyDestroy_AfterTry ==
  /\ pc = "finally"
  /\ destroyCalls' = IF optArgs.keep_infra \/ escaped THEN destroyCalls
                     ELSE destroyCalls + 1
  /\ pc' = IF escaped THEN "raised" ELSE "returned"
  /\ UNCHANGED <<direction, escaped>>
  /\ mainFrame

\* finally: if not args.keep_infra: destroy_all(...)
FinallyDestroy ==
  /\ pc = "finally"
  /\ destroyCalls' = IF optArgs.keep_infra THEN destroyCalls ELSE destroyCalls + 1
  /\ pc' = IF escaped THEN "raised" ELSE "returned"
  /\ UNCHANGED <<direction, escaped>>
  /\ mainFrame

NextOptimizer ==
  \/ ShowResults \/ DestroyAndExit \/ CreateStudy
  \/ SampleParameters \/ CheckCache \/ EnsureInfra \/ ApplyServiceConfig
  \/ WaitServiceReady \/ RunExternalBenchmarkTool \/ PruneInvalid
  \/ PersistResult \/ ExceptionEscapes \/ OptimizeReturns \/ FinallyDestroy

SpecOptimizer == InitOptimizer /\ [][NextOptimizer]_vars

\* C19: once a trial of this run has succeeded for an (infra, config) and
\* save_result has stored its record, a later trial that samples the same
\* (infra, config) gets a record back from the lookup and runs none of
\* ensure_infra, apply_config, the benchmark tool and save_result.
C19_SavedTrialIsCacheHit ==
  pc \in CallStages \cup {"valid"} /\ TrialKey \in savedKeys =>
    cached # <<>> /\ ran = {}

\* The latest trial has ended, and how.
LatestEnded(kind) ==
  trialOutcome.kind = kind /\ trialOutcome.trial = trialNumber - 1

InvalidResult(result) == result.error.present \/ result.throughput <= 0

C22_CacheAppendOnly ==
  [][cacheFile' # cacheFile =>
       /\ Len(cacheFile') = Len(cacheFile) + 1
       /\ SubSeq(cacheFile', 1, Len(cacheFile)) = cacheFile
       /\ cacheFile'[Len(cacheFile')] =
            CacheRecord(trialNumber - 1, sampled.infra, sampled.config, NoError,
                        Absent, Present(benchResult.throughput))
       /\ ~InvalidResult(benchResult)]_vars

\* A record was appended after the one the cache held before the run.
C22_Witness ==
  /\ Len(cacheFile) = 2 /\ Len(cacheAtStart) = 1
  /\ cacheFile[1] = cacheAtStart[1]
  /\ LatestEnded("fresh")
  /\ cacheFile[2].metrics = Present(100)

C30_DirectionMatchesMetric ==
  direction # "none" =>
    direction = IF optArgs.metric \in {"throughput", "cost_efficiency"}
                THEN "maximize" ELSE "minimize"

----------------------------------------------------------------------------
(* Specification SpecKey: config_to_key on two (infra, config) pairs.       *)

\* Dicts over a set of names, in every insertion order.
DictsOver(names) ==
  {d \in SeqsUpTo(names \X (1..MaxParam), Cardinality(names)) :
     \A j, k \in 1..Len(d) : j # k => d[j][1] # d[k][1]}

SamplePairs == [infra : DictsOver(InfraNames), config : DictsOver(ConfigNames)]

InitKey ==
  /\ IdleBefore
  /\ IdleOptimizer
  /\ IdleMain
  /\ IdleOps
  /\ pc = "args"
  /\ keyArgs \in SamplePairs \X SamplePairs
  /\ keys = <<>>

ComputeKeys ==
  /\ pc = "args"
  /\ keys' = <<config_to_key(keyArgs[1].infra, keyArgs[1].config),
               config_to_key(keyArgs[2].infra, keyArgs[2].config)>>
  /\ pc' = "keys"
  /\ UNCHANGED <<beforeVars, optVars, mainVars, opsVars, keyArgs>>

NextKey == ComputeKeys

SpecKey == InitKey /\ [][NextKey]_vars

----------------------------------------------------------------------------
(* Specification SpecChecks: one run of all-checks.sh (set -e), with        *)
(* health.sh run as its child.                                             *)

Rule == "========================================"

InitChecks ==
  /\ IdleBefore
  /\ IdleOptimizer /\ IdleKey /\ IdleMain
  /\ IdleTerraform
  /\ pc = "start"
  /\ exits \in {Exits(codes, installed, outdated) :
                  codes \in [Range(Commands) -> {0, 1}],
                  installed \in BOOLEAN, outdated \in BOOLEAN}
  /\ stdout = <<>>
  /\ cmds = <<>>
  /\ shExit = -1

shFrame == UNCHANGED <<beforeVars, optVars, keyVars, mainVars, tfVars, exits>>

\* A command under set -e: a non-zero exit status ends the script with it.
RunCommand(command, next) ==
  /\ cmds' = Append(cmds, command)
  /\ IF exits.codes[command] # 0
     THEN pc' = "exited" /\ shExit' = exits.codes[command]
     ELSE pc' = next /\ UNCHANGED shExit

\* all-checks.sh 4-6
StartBanner ==
  /\ pc = "start"
  /\ stdout' = stdout \o <<Rule, "Running all checks", Rule>>
  /\ pc' = "format"
  /\ UNCHANGED <<cmds, shExit>>
  /\ shFrame

\* all-checks.sh 8-10
Formatting ==
  /\ pc = "format"
  /\ stdout' = stdout \o <<"", "=== Formatting ===">>
  /\ RunCommand("pnpm format", "lint")
  /\ shFrame

\* all-checks.sh 12-14
Linting ==
  /\ pc = "lint"
  /\ stdout' = stdout \o <<"", "=== Linting ===">>
  /\ RunCommand("pnpm lint", "typecheck")
  /\ shFrame

\* all-checks.sh 16-18
TypeChecking ==
  /\ pc = "typecheck"
  /\ stdout' = stdout \o <<"", "=== Type checking ===">>
  /\ RunCommand("pnpm typecheck", "test")
  /\ shFrame

\* all-checks.sh 20-22
RunningTests ==
  /\ pc = "test"
  /\ stdout' = stdout \o <<"", "=== Running tests ===">>
  /\ RunCommand("pnpm test", "health")
  /\ shFrame

\* all-checks.sh 24-26 and health.sh 4-9: the header is echoed, ./health.sh
\* starts and looks for gitleaks; without it health.sh exits 1, and so does
\* all-checks.sh.
HealthStart ==
  /\ pc = "health"
  /\ IF exits.installed
     THEN /\ stdout' = stdout \o <<"", "=== All checks passed ===",
                                    "=== Checking for secrets with gitleaks ===">>
          /\ RunCommand("gitleaks detect --source . -v", "audit")
     ELSE /\ stdout' = stdout \o
                 <<"", "=== All checks passed ===",
                   "=== Checking for secrets with gitleaks ===",
                   "gitleaks not installed. Install with: brew install gitleaks">>
          /\ pc' = "exited" /\ shExit' = 1
          /\ UNCHANGED cmds
  /\ shFrame

\* health.sh 11-13
HealthAudit ==
  /\ pc = "audit"
  /\ stdout' = stdout \o <<"", "=== Checking for vulnerabilities ===">>
  /\ RunCommand("pnpm audit --prod", "outdated")
  /\ shFrame

\* health.sh 15-25: pnpm outdated never fails the script (|| true); health.sh
\* ends with status 0.
HealthOutdated ==
  /\ pc = "outdated"
  /\ stdout' = stdout
       \o <<"", "=== Checking for outdated dependencies ===">>
       \o (IF exits.outdated
           THEN <<"Package", "",
                  "NOTE: Some dependencies have updates available (not blocking)">>
           ELSE <<>>)
       \o <<"", "=== Health check passed ===">>
  /\ pc' = "banner"
  /\ UNCHANGED <<cmds, shExit>>
  /\ shFrame

\* all-checks.sh 28-31
FinalBanner ==
  /\ pc = "banner"
  /\ stdout' = stdout \o <<"", Rule, "All checks passed successfully", Rule>>
  /\ pc' = "exited" /\ shExit' = 0
  /\ UNCHANGED cmds
  /\ shFrame

NextChecks ==
  \/ StartBanner \/ Formatting \/ Linting \/ TypeChecking \/ RunningTests
  \/ HealthStart \/ HealthAudit \/ HealthOutdated \/ FinalBanner

SpecChecks == InitChecks /\ [][NextChecks]_vars

Printed(line) == \E k \in 1..Len(stdout) : stdout[k] = line

\* The lines that announce success of the whole run.
SuccessBanners == {"=== All checks passed ===", "All checks passed successfully"}

AllSucceeded ==
  exits.installed /\ \A c \in Range(Commands) : exits.codes[c] = 0

\* C24: the commands run in the order format, lint, typecheck, test, health;
\* the run ends at the first command that exits non-zero, with a non-zero
\* status, and a success banner is on the output only if every command,
\* those of the health script included, succeeded.
C24_FailFastBannerOnlyOnSuccess ==
  /\ IsPrefix(cmds, Commands)
  /\ \A k \in 1..Len(cmds) :
       exits.codes[cmds[k]] # 0 => k = Len(cmds) /\ pc = "exited" /\ shExit # 0
  /\ (\E line \in SuccessBanners : Printed(line)) => AllSucceeded

----------------------------------------------------------------------------
(* Specification SpecMinio: terraform apply of minio.tf for some values of  *)
(* the variables, then the first boot of each node in any order.           *)

InitMinio ==
  /\ IdleBefore
  /\ IdleOptimizer /\ IdleKey /\ IdleMain
  /\ IdleShell
  /\ pc = "plan"
  /\ tfInput \in {TfInput(enabled, n, m) :
                    enabled \in BOOLEAN, n \in 1..MaxNodes, m \in 1..MaxDrives}
  /\ tfState = NoTfState
  /\ nodes = <<>>

tfFrame == UNCHANGED <<beforeVars, optVars, keyVars, mainVars, shVars, tfInput>>

TerraformApply ==
  /\ pc = "plan"
  /\ tfState' = Apply(tfInput)
  /\ nodes' = [k \in 1..Len(tfState'.minio) |-> FreshNode]
  /\ pc' = "applied"
  /\ tfFrame

\* An instance boots and cloud-init runs its user_data.
FirstBoot ==
  /\ pc = "applied"
  /\ \E k \in 1..Len(nodes) :
       /\ ~nodes[k].booted
       /\ nodes' = [nodes EXCEPT ![k] =
                      RunCmds([FreshNode EXCEPT !.booted = TRUE],
                              tfState.minio[k].user_data.runcmd)]
  /\ UNCHANGED <<pc, tfState>>
  /\ tfFrame

NextMinio == TerraformApply \/ FirstBoot

SpecMinio == InitMinio /\ [][NextMinio]_vars

ClusterApplied == pc = "applied" /\ tfInput.minio_enabled
NodeCount == tfInput.minio_node_count
DrivesPerNode == tfInput.minio_drives_per_node

\* C25: the volume spec is http://minio{1...N}:9000/data{1...M}; on every
\* booted node each minio<k>, k in 1..N, is in /etc/hosts with 10.0.0.(10+k-1),
\* the address of node k's port and of the k-th internal endpoint, and each
\* /data<j>, j in 1..M, exists, is mounted and is in fstab.
C25_SpecNamesResolvable ==
  ClusterApplied =>
    \A n \in 1..Len(nodes) :
      /\ tfState.minio[n].user_data.MINIO_VOLUMES =
           "http://minio{1..." \o ToString(NodeCount) \o "}:9000/data{1..."
             \o ToString(DrivesPerNode) \o "}"
      /\ NodeCount = 3 /\ DrivesPerNode = 4 =>
           tfState.minio[n].user_data.MINIO_VOLUMES =
             "http://minio{1...3}:9000/data{1...4}"
      /\ Len(nodes) = NodeCount
      /\ nodes[n].booted =>
           /\ \A k \in 1..NodeCount :
                LET ip == "10.0.0." \o ToString(10 + k - 1)
                IN /\ <<ip, "minio" \o ToString(k)>> \in nodes[n].hosts
                   /\ tfState.minio_port[tfState.minio[k].port + 1].ip_address = ip
                   /\ tfState.minio_internal_endpoints[k] =
                        "http://" \o ip \o ":9000"
           /\ \A j \in 1..DrivesPerNode :
                LET path == "/data" \o ToString(j)
                IN /\ path \in nodes[n].dirs
                   /\ \E m \in nodes[n].mounts : m[2] = path
                   /\ \E f \in 1..Len(nodes[n].fstab) : nodes[n].fstab[f][2] = path

C25_Witness ==
  /\ ClusterApplied /\ NodeCount = 3 /\ DrivesPerNode = 4
  /\ \A n \in 1..3 : nodes[n].booted
  /\ <<"10.0.0.12", "minio3">> \in nodes[1].hosts
  /\ <<"/dev/sde", "/data4">> \in nodes[2].mounts
  /\ tfState.minio[3].user_data.MINIO_VOLUMES = "http://minio{1...3}:9000/data{1...4}"

\* The data volumes attached to instance n, in boot_index order.
DataDevices(n) ==
  SelectSeq(tfState.minio[n].block_device, LAMBDA b : b.list = "minio_data")

\* C26: with the cluster enabled there are N x M data volumes; instance n has
\* its boot volume at boot_index 0 and M data volumes at boot_index 1..M;
\* every data volume is attached to exactly one instance; and the d-th data
\* device of instance n is the volume named minio-<n>-data-<d>.
C26_DataVolumesPartitioned ==
  ClusterApplied =>
    /\ Len(tfState.minio_data) = NodeCount * DrivesPerNode
    /\ Len(tfState.minio) = NodeCount
    /\ \A n \in 1..NodeCount :
         /\ tfState.minio[n].block_device[1] = BlockDevice("minio_boot", n - 1, 0)
         /\ Len(DataDevices(n)) = DrivesPerNode
         /\ Len(tfState.minio[n].block_device) = DrivesPerNode + 1
         /\ \A d \in 1..DrivesPerNode :
              /\ DataDevices(n)[d].boot_index = d
              /\ DataDevices(n)[d].index \in 0..(Len(tfState.minio_data) - 1)
              /\ tfState.minio_data[DataDevices(n)[d].index + 1].name =
                   "minio-" \o ToString(n) \o "-data-" \o ToString(d)
    /\ \A v \in 0..(Len(tfState.minio_data) - 1) :
         Cardinality({<<n, d>> \in (1..NodeCount) \X (1..DrivesPerNode) :
                        DataDevices(n)[d].index = v}) = 1

C26_Witness ==
  /\ ClusterApplied /\ NodeCount = 2 /\ DrivesPerNode = 3
  /\ tfState.minio[2].block_device[4] = BlockDevice("minio_data", 5, 3)
  /\ tfState.minio_data[6].name = "minio-2-data-3"

\* C29: in the bootstrap script the j-th format, mount and fstab commands
\* name the same device for /data<j>, and no device is named for two mount
\* points.
C29_DistinctDevices ==
  ClusterApplied =>
    LET input == tfInput
        format == minio_format_cmds(input)
        mount == minio_mount_cmds(input)
        fstab == minio_fstab_cmds(input)
    IN /\ \A j \in 1..DrivesPerNode :
            /\ mount[j].args[2] = "/data" \o ToString(j)
            /\ fstab[j].args[2] = "/data" \o ToString(j)
            /\ mount[j].args[1] = format[j].args[1]
            /\ fstab[j].args[1] = format[j].args[1]
       /\ \A j, k \in 1..DrivesPerNode :
            j # k => format[j].args[1] # format[k].args[1]

----------------------------------------------------------------------------
(* src/src/benchmark.ts 235-294 and src/src/runners.ts 113-146: skipping,
   and how many adapters and queries are live at a time *)

\* C28: "Skipped (no SQL for <engine>)" is printed for a query only when its
\* catalog entry has no SQL for the engine; whatever --runs and --warmup are,
\* a query that has SQL for the engine ends with stats or with errors, never
\* skipped.
C28_SkippedOnlyWithoutSql ==
  Evaluated =>
    /\ lastOutcome.kind = "skipped" => ~EvaluatedHasSql
    /\ EvaluatedHasSql => lastOutcome.kind \in {"results", "errors"}

\* The adapters whose connection field is set.
Connected == {name \in DOMAIN client : client[name] # Null}

\* The engines visited before the pass that is running.
EarlierPasses == {visited[k] : k \in 1..(Len(visited) - 1)}

\* C27 as stated: at most one adapter is connected and at most one query is
\* in flight at any time, and when an engine's connect is called every
\* engine visited before it is disconnected, also when queries of its pass
\* failed.
C27_OneAdapterOneQuery ==
  /\ Cardinality(Connected) <= 1
  /\ inFlight <= 1
  /\ pc = "connect" => Connected = {}

\* The part of C27 that does not depend on how disconnect ends: at most one
\* query is in flight, an adapter is connected only during its own pass or
\* after a disconnect of it that raised, and an engine whose disconnect did
\* not raise is disconnected when the next connect is called, also when its
\* queries failed.
DisconnectedUnlessCloseRaised ==
  /\ inFlight <= 1
  /\ \A name \in Connected :
       \/ pc \in {"query", "rb_enter", "rb_loop", "rb_await", "evaluate"}
            /\ name = visited[Len(visited)]
       \/ <<name, "disconnect">> \in passRaised
  /\ pc = "connect" =>
       \A name \in EarlierPasses :
         <<name, "disconnect">> \notin passRaised => client[name] = Null

\* A second engine's connect is about to be called after a pass that connected,
\* had a failing query and was disconnected.
DisconnectedAfterFailedQueries ==
  /\ pc = "connect" /\ Len(visited) = 2
  /\ <<visited[1], "connect">> \notin passRaised
  /\ <<visited[1], "disconnect">> \notin passRaised
  /\ sent[visited[1]] > 0
  /\ ended # <<>>
  /\ client[visited[1]] = Null
====
